---- MODULE Spec2Model ----
(***************************************************************************)
(* Model of the claude-qdrant-mcp synchronisation engine (seed.ts:         *)
(* DocumentProcessor) and of the Qdrant persistence layer                  *)
(* (src/persistence/qdrant.ts: QdrantPersistence).                         *)
(*                                                                         *)
(* The vector store is a map from collection names to sets of points; a    *)
(* sync run is a process that walks through the awaits of                  *)
(* DocumentProcessor.process(); every external call (LLM, embedding,       *)
(* store read/write) may fail while the fault budget lasts.                *)
(***************************************************************************)
EXTENDS Integers, Sequences, FiniteSets, TLC

\* ------------------------------------------------------------------ bounds
MaxRuns   == 2      \* sync runs started in one behaviour
MaxEdits  == 1      \* edits of the source directory in one behaviour
MaxFaults == 1      \* failed external calls in one behaviour

\* --------------------------------------------------------- configuration
CHUNK_SIZE        == 1000     \* config.ts: CHUNK_SIZE default
CHUNK_OVERLAP     == 80       \* config.ts: CHUNK_OVERLAP default
BATCH_SIZE        == 10       \* config.ts: BATCH_SIZE default
CONCURRENCY       == 5        \* config.ts: CONCURRENCY default
SummaryThreshold  == 100      \* seed.ts: content.length > 100

\* config.ts: clients = CLIENT_COLLECTIONS.split(',').map(trim)
clients == <<"acme", "beta">>
Tenants == {clients[i] : i \in 1..Len(clients)}

\* ------------------------------------------------------------ file system
\* A file is the list of langchain Documents its loader returns: one per
\* page for a PDF, exactly one for .md/.txt.  A page is its text, modelled
\* by a variant tag and its length in characters.  A text derived from
\* pages (a chunk, an overview) is [kind, of, part]: what it is, the pages
\* it was made of, and which piece of them it is.
Absent == <<>>         \* a path that yields no Document
PathOrder == <<"a.pdf", "b.md">>
Paths == {PathOrder[i] : i \in 1..Len(PathOrder)}

Page(v, n) == [v |-> v, len |-> n]
ShortText  == <<Page(1, 60)>>                 \* below the summary threshold
ShortPages == <<Page(1, 20), Page(2, 20)>>    \* short PDF with two pages
LongText   == <<Page(1, 150)>>                \* summarised, one chunk
LongText2  == <<Page(2, 1500)>>               \* summarised, two chunks

Texts == {ShortText, ShortPages, LongText, LongText2}
\* what a file of the directory can hold: a PDF one Document per page, a
\* Markdown file exactly one
FileTexts(p) == IF p = "a.pdf" THEN Texts
                ELSE {ShortText, LongText}

\* a text of 22 chunks: three embedding batches
HugeText   == <<Page(3, 19500)>>

None == "none"
NoHash == <<>>

MinOf(a, b) == IF a < b THEN a ELSE b
MaxOf(a, b) == IF a > b THEN a ELSE b

RECURSIVE SumLen(_)
SumLen(pages) ==
    IF pages = <<>> THEN 0 ELSE Head(pages).len + SumLen(Tail(pages))

\* docs.map(d => d.pageContent).join('\n') : length of the joined content
ContentLength(pages) ==
    IF pages = <<>> THEN 0 ELSE SumLen(pages) + (Len(pages) - 1)

\* crypto.createHash("sha256").update(content).digest("hex"); collision
\* free on the texts of the model
Sha256(pages) == <<"sha256", pages>>

\* RecursiveCharacterTextSplitter on one Document: number of pieces
SplitCount(n) ==
    IF n = 0 THEN 0
    ELSE IF n <= CHUNK_SIZE THEN 1
    ELSE 1 + ((n - CHUNK_SIZE) + (CHUNK_SIZE - CHUNK_OVERLAP) - 1)
                 \div (CHUNK_SIZE - CHUNK_OVERLAP)

\* splitter.splitDocuments(docs): every page is split on its own
RECURSIVE SplitDocuments(_)
SplitDocuments(pages) ==
    IF pages = <<>> THEN <<>>
    ELSE [k \in 1..SplitCount(Head(pages).len) |->
             [kind |-> "chunk", of |-> <<Head(pages)>>, part |-> k]]
         \o SplitDocuments(Tail(pages))

\* LMStudioLLM.generateSummary: the model's answer, or the fallback string
SummaryFailed == [kind |-> "Summary generation failed - using fallback",
                  of |-> <<>>, part |-> 0]
GenerateSummary(pages, ok) ==
    IF ok THEN [kind |-> "overview", of |-> pages, part |-> 0]
    ELSE SummaryFailed

NoOverview == [kind |-> "undefined", of |-> <<>>, part |-> 0]

\* DocumentProcessor.createProcessedDocument
\* mutant: the summary is requested whatever the length of the content
CreateProcessedDocument_AlwaysSummarise(source, pages, hash, sumOk) ==
    [ source   |-> source,
      hash     |-> hash,
      content  |-> pages,
      overview |-> GenerateSummary(pages, sumOk),
      chunks   |-> [i \in 1..Len(SplitDocuments(pages)) |->
                      [content |-> SplitDocuments(pages)[i], index |-> i - 1,
                       total |-> Len(SplitDocuments(pages))]] ]

CreateProcessedDocument(source, pages, hash, sumOk) ==
    LET chunks == SplitDocuments(pages) IN
    [ source   |-> source,
      hash     |-> hash,
      content  |-> pages,
      overview |-> IF ContentLength(pages) > SummaryThreshold
                   THEN GenerateSummary(pages, sumOk) ELSE NoOverview,
      chunks   |-> [i \in 1..Len(chunks) |->
                      [content |-> chunks[i], index |-> i - 1,
                       total |-> Len(chunks)]] ]

\* ------------------------------------------------------------------ store
\* `${client}_catalog` and `${client}_chunks`
CatalogCollection(client) == <<client, "catalog">>

\* mutant: one chunk collection for all clients
ChunksCollection_Shared(client) == <<"all", "chunks">>

ChunksCollection(client)  == <<client, "chunks">>
Collections == {CatalogCollection(t) : t \in Tenants}
                 \cup {ChunksCollection(t) : t \in Tenants}

\* SHA-256 of the key strings of the model, first four bytes, as two
\* 16-bit halves: of a source, and of `${source}-${chunk_index}`
SourceDigests ==
       "a.pdf" :> <<42900, 40546>>
    @@ "b.md" :> <<4573, 18458>>
    @@ "notes/n60907.md" :> <<14796, 42286>>
    @@ "notes/n165272.md" :> <<14796, 42286>>
    @@ "notes/n4530.md" :> <<3492, 49832>>
    @@ "notes/n13920.md" :> <<39223, 55225>>
ChunkKeyDigests ==
       <<"a.pdf", 0>> :> <<63476, 31344>>
    @@ <<"a.pdf", 1>> :> <<49696, 10109>>
    @@ <<"a.pdf", 2>> :> <<46981, 21030>>
    @@ <<"a.pdf", 3>> :> <<3339, 41560>>
    @@ <<"a.pdf", 4>> :> <<5655, 29128>>
    @@ <<"a.pdf", 5>> :> <<20631, 30541>>
    @@ <<"a.pdf", 6>> :> <<34228, 3455>>
    @@ <<"a.pdf", 7>> :> <<26245, 10984>>
    @@ <<"a.pdf", 8>> :> <<45049, 31224>>
    @@ <<"a.pdf", 9>> :> <<27945, 22951>>
    @@ <<"a.pdf", 10>> :> <<15610, 31656>>
    @@ <<"a.pdf", 11>> :> <<60256, 9409>>
    @@ <<"a.pdf", 12>> :> <<15068, 23289>>
    @@ <<"a.pdf", 13>> :> <<4843, 42595>>
    @@ <<"a.pdf", 14>> :> <<9708, 32540>>
    @@ <<"a.pdf", 15>> :> <<52953, 4079>>
    @@ <<"a.pdf", 16>> :> <<56555, 12978>>
    @@ <<"a.pdf", 17>> :> <<43103, 48109>>
    @@ <<"a.pdf", 18>> :> <<61963, 16932>>
    @@ <<"a.pdf", 19>> :> <<52280, 37490>>
    @@ <<"a.pdf", 20>> :> <<12823, 44859>>
    @@ <<"a.pdf", 21>> :> <<29566, 57762>>
    @@ <<"a.pdf", 22>> :> <<31063, 5368>>
    @@ <<"a.pdf", 23>> :> <<53351, 64497>>
    @@ <<"a.pdf", 24>> :> <<21719, 308>>
    @@ <<"a.pdf", 25>> :> <<60805, 29282>>
    @@ <<"a.pdf", 26>> :> <<8821, 34245>>
    @@ <<"a.pdf", 27>> :> <<6066, 39004>>
    @@ <<"a.pdf", 28>> :> <<13700, 36742>>
    @@ <<"a.pdf", 29>> :> <<55374, 42427>>
    @@ <<"b.md", 0>> :> <<62073, 27329>>
    @@ <<"b.md", 1>> :> <<52855, 19163>>
    @@ <<"b.md", 2>> :> <<17735, 53305>>
    @@ <<"b.md", 3>> :> <<47797, 58131>>
    @@ <<"b.md", 4>> :> <<24194, 64846>>
    @@ <<"b.md", 5>> :> <<33159, 60375>>
    @@ <<"b.md", 6>> :> <<38419, 50839>>
    @@ <<"b.md", 7>> :> <<48294, 42136>>
    @@ <<"b.md", 8>> :> <<15524, 34785>>
    @@ <<"b.md", 9>> :> <<39858, 29738>>
    @@ <<"b.md", 10>> :> <<8949, 63533>>
    @@ <<"b.md", 11>> :> <<9653, 56777>>
    @@ <<"b.md", 12>> :> <<29191, 30598>>
    @@ <<"b.md", 13>> :> <<60041, 15639>>
    @@ <<"b.md", 14>> :> <<28356, 24034>>
    @@ <<"b.md", 15>> :> <<4326, 39445>>
    @@ <<"b.md", 16>> :> <<49396, 28248>>
    @@ <<"b.md", 17>> :> <<38730, 36521>>
    @@ <<"b.md", 18>> :> <<18454, 45535>>
    @@ <<"b.md", 19>> :> <<50036, 31563>>
    @@ <<"b.md", 20>> :> <<12394, 22508>>
    @@ <<"b.md", 21>> :> <<38469, 23260>>
    @@ <<"b.md", 22>> :> <<41484, 32933>>
    @@ <<"b.md", 23>> :> <<7733, 41645>>
    @@ <<"b.md", 24>> :> <<26763, 8130>>
    @@ <<"b.md", 25>> :> <<10310, 20722>>
    @@ <<"b.md", 26>> :> <<26729, 17987>>
    @@ <<"b.md", 27>> :> <<18531, 55635>>
    @@ <<"b.md", 28>> :> <<48663, 19226>>
    @@ <<"b.md", 29>> :> <<12885, 19563>>
    @@ <<"notes/n60907.md", 0>> :> <<10218, 29471>>
    @@ <<"notes/n60907.md", 1>> :> <<18643, 14433>>
    @@ <<"notes/n165272.md", 0>> :> <<12285, 64175>>
    @@ <<"notes/n165272.md", 1>> :> <<19981, 52132>>
    @@ <<"notes/n4530.md", 0>> :> <<41969, 5492>>
    @@ <<"notes/n4530.md", 1>> :> <<48772, 2413>>
    @@ <<"notes/n13920.md", 0>> :> <<41969, 5492>>
    @@ <<"notes/n13920.md", 1>> :> <<63302, 5182>>

\* QdrantPersistence.hashString: buffer.readUInt32BE(0) of the SHA-256
\* digest of the key string; the key is given as the parts of its template
\* literal, <<source>> or <<source, "-", chunk_index>>
HashString(key) ==
    IF Len(key) = 1 THEN SourceDigests[key[1]]
    ELSE ChunkKeyDigests[<<key[1], key[3]>>]

\* LMStudioEmbeddings.embedQuery / embedDocuments: the vector of a text
Embed(text) == <<text>>
EmptyEmbedding == <<>>          \* Array(batch.length).fill([])

\* mutant: an upsert always adds a record
Upsert_Duplicate(points, pt) == points \cup {pt}

\* client.upsert: a point with the same id is overwritten
Upsert(points, pt) == {q \in points : q.id # pt.id} \cup {pt}

\* mutant: the delete empties the collection
DeleteByFilter_All(points, source) == {}

\* client.delete with filter source == value
DeleteByFilter(points, source) == {q \in points : q.source # source}


\* QdrantPersistence.storeCatalogEntry: embedQuery(overview), then upsert.
\* A throw (unknown collection, failed embedding, failed upsert) leaves the
\* store as it is.
StoreCatalogEntry(st, entry, client, embOk, upOk) ==
    LET name == CatalogCollection(client) IN
    IF name \notin Collections \/ ~embOk \/ ~upOk THEN st
    ELSE [st EXCEPT ![name] = Upsert(@,
            [ id         |-> HashString(<<entry.source>>),
              vector     |-> Embed(entry.overview),
              source     |-> entry.source,
              hash       |-> entry.hash,
              content    |-> entry.content,
              overview   |-> entry.overview,
              created_at |-> entry.created_at,
              type       |-> "catalog",
              writer     |-> client ])]

\* mutant: every chunk goes to the chunk collection of the first client
StoreDocumentChunk_FirstClient(st, chunk, client, embOk, upOk) ==
    IF ~embOk \/ ~upOk THEN st
    ELSE [st EXCEPT ![ChunksCollection(clients[1])] = Upsert(@,
            [ id            |-> HashString(<<chunk.source, "-", chunk.chunk_index>>),
              vector        |-> Embed(chunk.chunk_content),
              source        |-> chunk.source,
              hash          |-> chunk.hash,
              content       |-> chunk.content,
              chunk_content |-> chunk.chunk_content,
              chunk_index   |-> chunk.chunk_index,
              chunk_total   |-> chunk.chunk_total,
              created_at    |-> chunk.created_at,
              type          |-> "chunk",
              writer        |-> client ])]

\* QdrantPersistence.storeDocumentChunk: embedQuery(chunk_content), then
\* upsert under the id of `${source}-${chunk_index}`.
StoreDocumentChunk(st, chunk, client, embOk, upOk) ==
    LET name == ChunksCollection(client) IN
    IF name \notin Collections \/ ~embOk \/ ~upOk THEN st
    ELSE [st EXCEPT ![name] = Upsert(@,
            [ id            |-> HashString(<<chunk.source, "-", chunk.chunk_index>>),
              vector        |-> Embed(chunk.chunk_content),
              source        |-> chunk.source,
              hash          |-> chunk.hash,
              content       |-> chunk.content,
              chunk_content |-> chunk.chunk_content,
              chunk_index   |-> chunk.chunk_index,
              chunk_total   |-> chunk.chunk_total,
              created_at    |-> chunk.created_at,
              type          |-> "chunk",
              writer        |-> client ])]

\* QdrantPersistence.deleteBySource: two independent delete-by-filter
\* calls, each in its own try/catch.
DeleteBySource(st, source, client, catOk, chunksOk) ==
    LET s1 == IF catOk /\ CatalogCollection(client) \in Collections
              THEN [st EXCEPT ![CatalogCollection(client)] =
                                   DeleteByFilter(@, source)]
              ELSE st
    IN  IF chunksOk /\ ChunksCollection(client) \in Collections
        THEN [s1 EXCEPT ![ChunksCollection(client)] =
                             DeleteByFilter(@, source)]
        ELSE s1

\* QdrantPersistence.getAllSourcesFromDB: scroll over the catalog
\* collection; a failed scroll is caught and yields what was collected.
GetAllSourcesFromDB(st, client, ok) ==
    IF ok THEN {q.source : q \in st[CatalogCollection(client)]} ELSE {}

\* mutant: a failed scroll is reported as an entry without hash
GetDBEntry_FailureAsEntry(st, source, client, ok) ==
    LET found == {q \in st[CatalogCollection(client)] : q.source = source} IN
    IF ok /\ found # {}
    THEN [found |-> TRUE,  hash |-> (CHOOSE q \in found : TRUE).hash]
    ELSE [found |-> ~ok, hash |-> NoHash]

\* QdrantPersistence.getDBEntry: scroll the catalog collection by source,
\* limit 1; null when nothing is found or the scroll fails.
GetDBEntry(st, source, client, ok) ==
    LET found == {q \in st[CatalogCollection(client)] : q.source = source} IN
    IF ok /\ found # {}
    THEN [found |-> TRUE,  hash |-> (CHOOSE q \in found : TRUE).hash]
    ELSE [found |-> FALSE, hash |-> NoHash]

\* mutant: the source filter is left out of the search
SearchChunksCandidates_NoFilter(st, client, source) ==
    st[ChunksCollection(client)]

\* QdrantPersistence.searchChunks: the points of the tenant's chunk
\* collection that pass the optional source filter (`if (source)`).
SearchChunksCandidates(st, client, source) ==
    {q \in st[ChunksCollection(client)] : source = None \/ q.source = source}

\* QdrantPersistence.searchCatalog
SearchCatalogCandidates(st, client) == st[CatalogCollection(client)]

\* ------------------------------------------------------- change detection
NoFile == [source |-> None, hash |-> NoHash, content |-> Absent,
           overview |-> NoOverview, chunks |-> <<>>]
FileAction(type, source, file, oldHash) ==
    [type |-> type, source |-> source, file |-> file, oldHash |-> oldHash]

\* loader.load(): the paths that yield documents, in loader order
Scanned(dsk) == SelectSeq(PathOrder, LAMBDA p : dsk[p] # Absent)

SeqRange(s) == {s[i] : i \in 1..Len(s)}

\* DocumentProcessor.determineFileActions, body of the try block for one
\* source: the hash comparison against getDBEntry.
\* mutant: a stored entry always means UPDATE, the hashes are not compared
AnalyseSource_NoSkip(st, client, source, pages, entryOk, sumOk) ==
    IF ~GetDBEntry(st, source, client, entryOk).found
    THEN FileAction("ADD", source,
             CreateProcessedDocument(source, pages, Sha256(pages), sumOk), NoHash)
    ELSE FileAction("UPDATE", source,
             CreateProcessedDocument(source, pages, Sha256(pages), sumOk),
             GetDBEntry(st, source, client, entryOk).hash)

AnalyseSource(st, client, source, pages, entryOk, sumOk) ==
    LET currentHash == Sha256(pages)
        dbEntry     == GetDBEntry(st, source, client, entryOk)
    IN  IF ~dbEntry.found
        THEN FileAction("ADD", source,
                 CreateProcessedDocument(source, pages, currentHash, sumOk), NoHash)
        ELSE IF dbEntry.hash # currentHash
        THEN FileAction("UPDATE", source,
                 CreateProcessedDocument(source, pages, currentHash, sumOk),
                 dbEntry.hash)
        ELSE FileAction("SKIP", source, NoFile, NoHash)

\* DocumentProcessor.determineFileActions: one action per analysed source,
\* then a DELETE for every stored source that was not analysed.
\*   dbOk        - the scroll of getAllSourcesFromDB succeeded
\*   entryFail   - sources whose getDBEntry scroll failed
\*   sumFail     - sources whose summary request failed
\*   analyseFail - sources whose analysis threw inside the try block
DetermineFileActions(st, dsk, client, dbOk, entryFail, sumFail, analyseFail) ==
    LET dbSources == GetAllSourcesFromDB(st, client, dbOk)
        analysed  == SelectSeq(Scanned(dsk), LAMBDA p : p \notin analyseFail)
        fsActions == [i \in 1..Len(analysed) |->
                        AnalyseSource(st, client, analysed[i], dsk[analysed[i]],
                                      analysed[i] \notin entryFail,
                                      analysed[i] \notin sumFail)]
        deleted   == SelectSeq(PathOrder,
                        LAMBDA p : p \in dbSources /\ p \notin SeqRange(analysed))
    IN  fsActions \o [i \in 1..Len(deleted) |->
                        FileAction("DELETE", deleted[i], NoFile, NoHash)]


\* ------------------------------------------------------------------ state
VARIABLES
    disk,     \* the source directory: path -> pages (Absent when no file)
    store,    \* the vector store: collection name -> set of points
    pc,       \* position of the running DocumentProcessor.process()
    run,      \* locals of the running process() (IdleRun when none runs)
    synced,   \* history: per tenant, directory and store after its last sync
    last,     \* history: the last process() call that returned
    result,   \* the answer of the last search request
    faults,   \* failed external calls so far
    runs,     \* process() calls so far; also the clock of created_at
    edits,    \* directory edits so far
    initialized,  \* handlers.ts: the flag of ensureInitialized
    boot,     \* the start of a process: its environment and how far it got
    conn,     \* QdrantPersistence: the initialized flag, the running connect()
    scroll,   \* locals of the running getAllSourcesFromDB()
    calls     \* handlers.ts: the handler calls in flight and their position

vars == <<disk, store, pc, run, synced, last, result, faults, runs, edits,
          initialized, boot, conn, scroll, calls>>

NoSync == [valid |-> FALSE, disk |-> [p \in Paths |-> Absent],
           catalog |-> {}, chunks |-> {}]

\* pLimit(config.concurrency): the calls that run and the calls that wait
NoCalls == [active |-> {}, queue |-> <<>>]

IdleRun == [client |-> None, overwrite |-> FALSE, validateOnly |-> FALSE,
            startDisk |-> [p \in Paths |-> Absent],
            startStore |-> [c \in Collections |-> {}],
            prev |-> NoSync,
            actions |-> <<>>, ai |-> 1,
            documentsToProcess |-> <<>>,
            catalogEmbeddings |-> <<>>, chunkEmbeddings |-> <<>>,
            di |-> 1, ci |-> 1,
            embedFailed |-> {},
            writeFailed |-> {},     \* history: items whose upsert failed
            purgeFailed |-> {},     \* history: <<source, store>> of failed deletes
            reordered |-> FALSE,    \* history: the action list was permuted
            wrote |-> FALSE,        \* history: an upsert was sent in the run
            lateEmbed |-> FALSE,    \* history: an embedding call came after it
            failed |-> {},          \* history: paths hit by a failed call
            lookupFailed |-> {},    \* history: paths whose getDBEntry failed
            analyseFailed |-> {},   \* history: paths whose analysis threw
            concurrency |-> CONCURRENCY,    \* config.concurrency
            limiter |-> NoCalls,    \* this.limiter
            pending |-> <<>>,       \* batches the batch loop has not reached
            failCat |-> {}, failBatch |-> {},   \* embedding calls that threw
            peak |-> 0]             \* history: most embedding calls in flight

NoLast == [valid |-> FALSE, executed |-> FALSE, threw |-> FALSE, run |-> IdleRun]

\* A tool argument is a JSON value: its JavaScript type (typeof) and its
\* value.
Undefined == [type |-> "undefined", str |-> "", num |-> 0]
Str(x)    == [type |-> "string", str |-> x, num |-> 0]
Num(n)    == [type |-> "number", str |-> "", num |-> n]

NoArgs == [query |-> Undefined, client |-> Undefined, source |-> Undefined,
           limit |-> Undefined]

\* what a tool call answers: the list of the `content` it returns, or the
\* error it throws
NoReply == [kind |-> None, tool |-> None, args |-> NoArgs, limit |-> 0,
            list |-> <<>>, down |-> {}, embOk |-> TRUE, field |-> None,
            contacted |-> FALSE,
            embeds |-> 0,        \* history: embedQuery calls of the request
            searched |-> <<>>]   \* history: collections a search was sent to

NoResult == [kind |-> None, client |-> None, source |-> None, hits |-> {},
             reply |-> NoReply]

\* ---------------------------------------------------------------- startup
\* process.env: a variable that is not set
Unset == "unset"

\* QDRANT_URL as the code looks at it: its scheme (startsWith) and its
\* host (new URL throws on a special scheme without host)
Url(scheme, host) == [scheme |-> scheme, host |-> host]
NoUrl == Url(Unset, "")
Urls == {NoUrl, Url("none", "qdrant"), Url("http", ""), Url("http", "qdrant"),
         Url("https", "qdrant")}

\* config.ts: the default of CLIENT_COLLECTIONS
DefaultClients == <<"work", "personal", "research", "projects">>

\* String.prototype.trim on the names of the model
Trim(name) == IF name = " beta" THEN "beta"
              ELSE IF name = " " THEN "" ELSE name

\* config.ts: CLIENT_COLLECTIONS.split(',').map(name => name.trim());
\* the value is given as its comma separated parts, the empty string as
\* the single part "", a variable that is not set as no part at all
NoParts == <<>>
ParseClients(raw) ==
    IF raw = NoParts \/ raw = <<"">> THEN DefaultClients
    ELSE [i \in 1..Len(raw) |-> Trim(raw[i])]

\* config.ts: the collections array, two names per client, in order
ConfigCollections(cl) ==
    [i \in 1..2 * Len(cl) |->
        IF i % 2 = 1 THEN CatalogCollection(cl[(i + 1) \div 2])
        ELSE ChunksCollection(cl[i \div 2])]

\* the CLIENT_COLLECTIONS values of the model
RawClients == {NoParts, <<"">>, <<"acme", " beta">>, <<"acme", "">>,
               <<"acme", "acme">>, <<" ">>}

\* the --client values of the model ("" stands for a missing argument)
ClientArgs == {"", "acme", "beta", "marketing"}

\* a process that has not started: its environment, its entry point
\* (index.ts or seed.ts), the --client argument of seed.ts and the
\* collections the store holds
Process(url, raw, entry, arg, existing) ==
    [ url |-> url, raw |-> raw, entry |-> entry, arg |-> arg,
      clients |-> <<>>,          \* config.ts: clients, once loaded
      stage |-> "start",
      existing |-> existing,
      before |-> existing,       \* history: the collections at the start
      created |-> {},            \* history: collections this process created
      faulted |-> FALSE ]        \* history: a call to the store failed

\* the process of the seed runs and tool calls: started long ago, every
\* collection of the configuration exists
Booted ==
    [Process(Url("http", "qdrant"), <<"acme", " beta">>, "none", "", Collections)
        EXCEPT !.clients = clients, !.stage = "ready"]

\* QdrantPersistence.connect: no call of connect() runs
\*   initialized - this.initialized
\*   retries, delay - the locals of the running call
\*   attempts - history: the outcomes of getCollections in the last call
\*   waits    - history: the delays the last call has slept
\*   n        - history: calls of connect() so far
Connection(init) ==
    [pc |-> "none", initialized |-> init, retries |-> 0, delay |-> 0,
     attempts |-> <<>>, waits |-> <<>>, n |-> 0]

\* no getAllSourcesFromDB() runs
NoScroll == [pc |-> "none"]

\* no handler call is in flight
NoHandlerCalls == <<>>

InitState ==
    /\ boot = Booted
    /\ disk \in {d \in [Paths -> Texts \cup {Absent}] :
                    /\ d["a.pdf"] \in {ShortPages, LongText2}
                    /\ d["b.md"] \in {Absent, ShortText}}
    /\ store = [c \in Collections |-> {}]
    /\ pc = "idle"
    /\ run = IdleRun
    /\ synced = [t \in Tenants |-> NoSync]
    /\ last = NoLast
    /\ result = NoResult
    /\ runs = 0
    /\ edits = 0
    /\ initialized = FALSE
    /\ conn = Connection(boot.stage = "ready")
    /\ scroll = NoScroll
    /\ calls = NoHandlerCalls

Init == InitState /\ faults = 0

\* outcomes of one fallible external call
Outcomes == IF faults < MaxFaults THEN {TRUE, FALSE} ELSE {TRUE}
Cost(ok) == IF ok THEN 0 ELSE 1

\* process() returns: the run becomes history
Return(r, st, executed) ==
    /\ pc' = "idle"
    /\ run' = IdleRun
    /\ last' = [valid |-> TRUE, executed |-> executed, threw |-> FALSE, run |-> r]
    /\ synced' = IF r.validateOnly THEN synced
                 ELSE [synced EXCEPT ![r.client] =
                         [valid |-> TRUE, disk |-> r.startDisk,
                          catalog |-> st[CatalogCollection(r.client)],
                          chunks  |-> st[ChunksCollection(r.client)]]]

\* process() rethrows what its try block caught: main() prints the fatal
\* error and exits with status 1
Throw(r) ==
    /\ pc' = "idle"
    /\ run' = IdleRun
    /\ last' = [valid |-> TRUE, executed |-> FALSE, threw |-> TRUE, run |-> r]
    /\ synced' = synced

\* mutant: the validateOnly return is missing
ReturnsBeforeExecute_NoValidateOnly(actions, validateOnly) ==
    Len(actions) = 0

\* DocumentProcessor.process(): after determineFileActions the run returns
\* when there is nothing to do or when it only validates
ReturnsBeforeExecute(actions, validateOnly) ==
    Len(actions) = 0 \/ validateOnly

\* DocumentProcessor.process() up to its first store write: initialize,
\* loadDocuments, determineFileActions, the validateOnly return.
StartSyncEnv(client, overwrite, validateOnly, concurrency) ==
    /\ pc = "idle"
    /\ runs < MaxRuns
    /\ runs' = runs + 1
    /\ result' = NoResult
    /\ UNCHANGED <<boot, conn, scroll, calls, initialized, disk, store, edits>>
    /\ LET scanned == SeqRange(Scanned(disk))
           r0 == [IdleRun EXCEPT !.client = client, !.overwrite = overwrite,
                                 !.validateOnly = validateOnly,
                                 !.startDisk = disk, !.startStore = store,
                                 !.prev = synced[client],
                                 !.concurrency = concurrency]
       IN  IF scanned = {}
           THEN \* rawDocs.length === 0
                /\ faults' = faults
                /\ Return(r0, store, FALSE)
           ELSE
             \/ \* loader.load() rejects on a file its loader cannot read
                \E p \in scanned :
                   /\ faults < MaxFaults
                   /\ faults' = faults + 1
                   /\ Throw([r0 EXCEPT !.failed = {p}])
             \/ \E dbOk \in Outcomes :
                \E entryFail \in SUBSET scanned :
                \E sumFail \in SUBSET {p \in scanned :
                                 ContentLength(disk[p]) > SummaryThreshold} :
                \E analyseFail \in SUBSET scanned :
                  LET n == Cost(dbOk) + Cardinality(entryFail)
                             + Cardinality(sumFail) + Cardinality(analyseFail)
                      actions == DetermineFileActions(store, disk, client, dbOk,
                                     entryFail, sumFail, analyseFail)
                      r1 == [r0 EXCEPT !.actions = actions,
                                !.failed = entryFail \cup sumFail \cup analyseFail,
                                !.lookupFailed = entryFail,
                                !.analyseFailed = analyseFail]
                  IN  /\ faults + n <= MaxFaults
                      /\ analyseFail \cap (entryFail \cup sumFail) = {}
                      /\ faults' = faults + n
                      /\ IF ReturnsBeforeExecute(actions, validateOnly)
                         THEN Return(r1, store, FALSE)
                         ELSE /\ pc' = "exec"
                              /\ run' = r1
                              /\ UNCHANGED <<last, synced>>

\* a run under the default CONCURRENCY
StartSync(client, overwrite, validateOnly) ==
    StartSyncEnv(client, overwrite, validateOnly, CONCURRENCY)

\* DocumentProcessor.executeFileActions: one iteration of the action loop
ExecuteFileAction ==
    /\ pc = "exec"
    /\ result' = NoResult
    /\ UNCHANGED <<boot, conn, scroll, calls, initialized, disk, runs, edits, last, synced>>
    /\ LET action == run.actions[run.ai]
           purge  == action.type \in {"DELETE", "UPDATE"}
           queue  == action.type \in {"ADD", "UPDATE"} /\ action.file.source # None
           docs   == IF queue THEN Append(run.documentsToProcess, action.file)
                     ELSE run.documentsToProcess
           next   == IF run.ai < Len(run.actions) THEN "exec"
                     ELSE IF Len(docs) > 0 THEN "embed" ELSE "finish"
       IN  /\ \E catOk \in Outcomes, chunksOk \in Outcomes :
                /\ purge \/ (catOk /\ chunksOk)
                /\ faults + Cost(catOk) + Cost(chunksOk) <= MaxFaults
                /\ faults' = faults + Cost(catOk) + Cost(chunksOk)
                /\ store' = IF purge
                            THEN DeleteBySource(store, action.source, run.client,
                                                catOk, chunksOk)
                            ELSE store
                /\ run' = [run EXCEPT !.ai = @ + 1, !.documentsToProcess = docs,
                      !.purgeFailed = @ \cup
                          (IF catOk THEN {} ELSE {<<action.source, "catalog">>})
                          \cup
                          (IF chunksOk THEN {} ELSE {<<action.source, "chunks">>}),
                      !.failed = IF catOk /\ chunksOk THEN @
                                 ELSE @ \cup {action.source}]
           /\ pc' = next


\* executeFileActions(actions) is handed the actions of the run in
\* another order
Reorder ==
    /\ pc = "exec"
    /\ run.ai = 1
    /\ ~run.reordered
    /\ \E perm \in Permutations(DOMAIN run.actions) :
          /\ \E i \in DOMAIN run.actions : perm[i] # i
          /\ run' = [run EXCEPT
                       !.actions = [i \in DOMAIN run.actions |->
                                       run.actions[perm[i]]],
                       !.reordered = TRUE]
    /\ result' = NoResult
    /\ UNCHANGED <<boot, conn, scroll, calls, initialized, disk, store, pc,
                   runs, edits, last, synced, faults>>

\* items of a run: the overview of a source, or one of its chunks
CatalogItem(source)      == <<source, -1>>
ChunkItem(source, index) == <<source, index>>

\* first index of the batch that holds chunk position i (0-based)
BatchStart(i) == (i \div BATCH_SIZE) * BATCH_SIZE

DocSources(docs) == {docs[i].source : i \in 1..Len(docs)}
DocOf(docs, source) == docs[CHOOSE i \in 1..Len(docs) : docs[i].source = source]

\* LMStudioEmbeddings.embedDocuments(batch): one embedding per text, in
\* the order of the texts
EmbedBatch(batch) == [j \in 1..Len(batch) |-> Embed(batch[j])]

\* mutant: a failed batch adds nothing to the list
FailedBatch_Nothing(batch) == <<>>

\* Array(batch.length).fill([]): the placeholders of a failed batch
FailedBatch(batch) == [j \in 1..Len(batch) |-> EmptyEmbedding]

\* the batch loop of generateAllEmbeddings from position i (0-based) on:
\* embeddingsForDoc.push(...) once per batch
RECURSIVE EmbedInBatches(_, _, _, _)
EmbedInBatches(source, texts, i, failBatch) ==
    IF i >= Len(texts) THEN <<>>
    ELSE LET batch == SubSeq(texts, i + 1, MinOf(i + BATCH_SIZE, Len(texts)))
         IN  (IF <<source, i>> \in failBatch THEN FailedBatch(batch)
              ELSE EmbedBatch(batch))
             \o EmbedInBatches(source, texts, i + BATCH_SIZE, failBatch)

\* DocumentProcessor.generateAllEmbeddings
\*   failCat   - sources whose overview embedding threw
\*   failBatch - <<source, batch start>> of the batches whose embedding threw
GenerateAllEmbeddings(docs, failCat, failBatch) ==
    LET withOverview == {src \in DocSources(docs) :
                            DocOf(docs, src).overview # NoOverview}
        withChunks   == {src \in DocSources(docs) :
                            Len(DocOf(docs, src).chunks) # 0}
    IN  [ catalogEmbeddings |->
            [src \in withOverview \ failCat |-> Embed(DocOf(docs, src).overview)],
          chunkEmbeddings |->
            [src \in withChunks |->
               EmbedInBatches(src,
                  [k \in 1..Len(DocOf(docs, src).chunks) |->
                      DocOf(docs, src).chunks[k].content],
                  0, failBatch)] ]

\* the embedding calls generateAllEmbeddings can make for these documents
OverviewCalls(docs) ==
    {src \in DocSources(docs) : DocOf(docs, src).overview # NoOverview}
BatchCalls(docs) ==
    UNION {{<<docs[i].source, BatchStart(k - 1)>> : k \in 1..Len(docs[i].chunks)} :
             i \in 1..Len(docs)}

\* the items whose embedding call failed
FailedItems(docs, failCat, failBatch) ==
    {CatalogItem(src) : src \in failCat} \cup
    UNION {{ChunkItem(docs[i].source, k - 1) :
              k \in {j \in 1..Len(docs[i].chunks) :
                       <<docs[i].source, BatchStart(j - 1)>> \in failBatch}} :
             i \in 1..Len(docs)}

EmbedDocuments ==
    /\ pc = "embed"
    /\ result' = NoResult
    /\ UNCHANGED <<boot, conn, scroll, calls, initialized, disk, store, runs, edits, last, synced>>
    /\ LET docs == run.documentsToProcess IN
       \E failCat \in SUBSET OverviewCalls(docs) :
       \E failBatch \in SUBSET BatchCalls(docs) :
         LET n == Cardinality(failCat) + Cardinality(failBatch)
             e == GenerateAllEmbeddings(docs, failCat, failBatch)
         IN  /\ faults + n <= MaxFaults
             /\ faults' = faults + n
             /\ run' = [run EXCEPT
                   !.catalogEmbeddings = e.catalogEmbeddings,
                   !.chunkEmbeddings = e.chunkEmbeddings,
                   !.embedFailed = @ \cup FailedItems(docs, failCat, failBatch),
                   !.failed = @ \cup failCat \cup {b[1] : b \in failBatch}]
             /\ pc' = "seedCatalog"


\* an embedding call of generateAllEmbeddings: the overview of a document
\* (start = -1) or the batch of its chunks that begins at `start`
Task(source, start) == [source |-> source, start |-> start]

\* the overview calls, in the order of the documents
OverviewTasks(docs) ==
    LET sel == SelectSeq(docs, LAMBDA d : d.overview # NoOverview)
    IN  [i \in 1..Len(sel) |-> Task(sel[i].source, -1)]

\* the batch calls, in the order the two loops reach them
RECURSIVE BatchTasks(_, _)
BatchTasks(docs, d) ==
    IF d > Len(docs) THEN <<>>
    ELSE LET n == (Len(docs[d].chunks) + BATCH_SIZE - 1) \div BATCH_SIZE
         IN  [j \in 1..n |-> Task(docs[d].source, (j - 1) * BATCH_SIZE)]
             \o BatchTasks(docs, d + 1)

\* mutant: the limiter starts every call at once
CanStart_Unlimited(active, concurrency) == TRUE

\* p-limit: a call starts while fewer than `concurrency` calls run
CanStart(active, concurrency) == Cardinality(active) < concurrency

\* this.limiter(fn): the call starts at once or waits in the queue
Enqueue(lim, task, concurrency) ==
    IF CanStart(lim.active, concurrency)
    THEN [lim EXCEPT !.active = @ \cup {task}]
    ELSE [lim EXCEPT !.queue = Append(@, task)]

\* documents.map(doc => this.limiter(...)): one call after the other
RECURSIVE EnqueueAll(_, _, _)
EnqueueAll(lim, tasks, concurrency) ==
    IF Len(tasks) = 0 THEN lim
    ELSE EnqueueAll(Enqueue(lim, Head(tasks), concurrency), Tail(tasks),
                    concurrency)

\* a call of the limiter settles: the head of the queue starts
Release(lim, task, concurrency) ==
    LET rest == lim.active \ {task} IN
    IF Len(lim.queue) > 0 /\ CanStart(rest, concurrency)
    THEN [active |-> rest \cup {Head(lim.queue)}, queue |-> Tail(lim.queue)]
    ELSE [lim EXCEPT !.active = rest]

\* generateAllEmbeddings followed call by call.
\* The overview calls are handed to the limiter, all at once.
SubmitOverviews ==
    /\ pc = "embed"
    /\ result' = NoResult
    /\ UNCHANGED <<boot, conn, scroll, calls, initialized, disk, store, runs, edits, last, synced, faults>>
    /\ LET docs == run.documentsToProcess
           lim  == EnqueueAll(NoCalls, OverviewTasks(docs), run.concurrency)
       IN  run' = [run EXCEPT !.limiter = lim,
                              !.pending = BatchTasks(docs, 1),
                              !.peak = MaxOf(@, Cardinality(lim.active))]
    /\ pc' = "embedOverviews"

\* one overview call settles (its own try/catch keeps a failure inside)
CompleteOverview ==
    /\ pc = "embedOverviews"
    /\ result' = NoResult
    /\ UNCHANGED <<boot, conn, scroll, calls, initialized, disk, store, runs, edits, last, synced, pc>>
    /\ \E task \in run.limiter.active, ok \in Outcomes :
          LET lim == Release(run.limiter, task, run.concurrency) IN
          /\ faults' = faults + Cost(ok)
          /\ run' = [run EXCEPT !.limiter = lim,
                        !.failCat = IF ok THEN @ ELSE @ \cup {task.source},
                        !.peak = MaxOf(@, Cardinality(lim.active))]

\* Promise.all has resolved, or the batch before this one has settled:
\* the batch loop awaits the limiter for its next batch
StartBatch ==
    /\ pc \in {"embedOverviews", "embedBatches"}
    /\ run.limiter = NoCalls
    /\ Len(run.pending) > 0
    /\ result' = NoResult
    /\ UNCHANGED <<boot, conn, scroll, calls, initialized, disk, store, runs, edits, last, synced, faults>>
    /\ LET lim == Enqueue(run.limiter, Head(run.pending), run.concurrency)
       IN  run' = [run EXCEPT !.limiter = lim, !.pending = Tail(@),
                              !.peak = MaxOf(@, Cardinality(lim.active))]
    /\ pc' = "embedBatches"

\* the batch call settles
CompleteBatch ==
    /\ pc = "embedBatches"
    /\ result' = NoResult
    /\ UNCHANGED <<boot, conn, scroll, calls, initialized, disk, store, runs, edits, last, synced, pc>>
    /\ \E task \in run.limiter.active, ok \in Outcomes :
          /\ faults' = faults + Cost(ok)
          /\ run' = [run EXCEPT
                !.limiter = Release(@, task, run.concurrency),
                !.failBatch = IF ok THEN @
                              ELSE @ \cup {<<task.source, task.start>>}]

\* generateAllEmbeddings returns the two maps
ReturnEmbeddings ==
    /\ pc \in {"embedOverviews", "embedBatches"}
    /\ run.limiter = NoCalls
    /\ Len(run.pending) = 0
    /\ result' = NoResult
    /\ UNCHANGED <<boot, conn, scroll, calls, initialized, disk, store, runs, edits, last, synced, faults>>
    /\ LET docs == run.documentsToProcess
           e == GenerateAllEmbeddings(docs, run.failCat, run.failBatch)
       IN  run' = [run EXCEPT
              !.catalogEmbeddings = e.catalogEmbeddings,
              !.chunkEmbeddings = e.chunkEmbeddings,
              !.embedFailed = @ \cup FailedItems(docs, run.failCat, run.failBatch),
              !.failed = @ \cup run.failCat \cup {b[1] : b \in run.failBatch}]
    /\ pc' = "seedCatalog"

\* mutant: the catalog loop does not look for the embedding of the overview
SkipCatalogEntry_NoEmbeddingTest(doc, catalogEmbeddings) ==
    doc.overview = NoOverview

\* DocumentProcessor.seedDocuments: the `continue`s of the two loops
SkipCatalogEntry(doc, catalogEmbeddings) ==
    \/ doc.overview = NoOverview
    \/ doc.source \notin DOMAIN catalogEmbeddings

\* mutant: the empty-embedding test is missing
SkipChunk_KeepEmpty(doc, i, chunkEmbeddings) ==
    doc.source \notin DOMAIN chunkEmbeddings

SkipChunk(doc, i, chunkEmbeddings) ==
    \/ doc.source \notin DOMAIN chunkEmbeddings
    \/ i \notin DOMAIN chunkEmbeddings[doc.source]
    \/ chunkEmbeddings[doc.source][i] = EmptyEmbedding

\* DocumentProcessor.seedDocuments, catalog loop: one iteration
SeedCatalogEntry ==
    /\ pc = "seedCatalog"
    /\ result' = NoResult
    /\ UNCHANGED <<boot, conn, scroll, calls, initialized, disk, runs, edits, last, synced>>
    /\ LET docs  == run.documentsToProcess
           doc   == docs[run.di]
           skip  == SkipCatalogEntry(doc, run.catalogEmbeddings)
           entry == [source |-> doc.source, hash |-> doc.hash,
                     content |-> doc.content, overview |-> doc.overview,
                     created_at |-> runs]
           item  == CatalogItem(doc.source)
       IN  /\ \E embOk \in Outcomes, upOk \in Outcomes :
                /\ (skip \/ ~embOk) => upOk
                /\ skip => embOk
                /\ faults' = faults + Cost(embOk) + Cost(upOk)
                /\ store' = IF skip THEN store
                            ELSE StoreCatalogEntry(store, entry, run.client,
                                                   embOk, upOk)
                /\ run' = [run EXCEPT
                      !.di = IF run.di < Len(docs) THEN @ + 1 ELSE 1,
                      !.embedFailed = IF ~skip /\ ~embOk THEN @ \cup {item} ELSE @,
                      !.writeFailed = IF ~skip /\ ~upOk THEN @ \cup {item} ELSE @,
                      !.wrote = @ \/ (~skip /\ embOk),
                      !.lateEmbed = @ \/ (~skip /\ run.wrote),
                      !.failed = IF embOk /\ upOk THEN @ ELSE @ \cup {doc.source},
                      !.peak = IF skip THEN @
                               ELSE MaxOf(@, Cardinality(run.limiter.active) + 1)]
           /\ pc' = IF run.di < Len(docs) THEN "seedCatalog" ELSE "seedChunks"

\* DocumentProcessor.seedDocuments, chunk loop: one iteration of the inner
\* loop (or the `continue` of a document without embeddings)
SeedDocumentChunk ==
    /\ pc = "seedChunks"
    /\ result' = NoResult
    /\ UNCHANGED <<boot, conn, scroll, calls, initialized, disk, runs, edits, last, synced>>
    /\ LET docs    == run.documentsToProcess
           doc     == docs[run.di]
           noEmb   == doc.source \notin DOMAIN run.chunkEmbeddings
           lastOne == noEmb \/ run.ci >= Len(doc.chunks)
           skip    == SkipChunk(doc, run.ci, run.chunkEmbeddings)
           chunk   == doc.chunks[run.ci]
           rec     == [source |-> doc.source, hash |-> doc.hash,
                       content |-> doc.content, chunk_index |-> chunk.index,
                       chunk_total |-> chunk.total,
                       chunk_content |-> chunk.content, created_at |-> runs]
           item    == ChunkItem(doc.source, chunk.index)
       IN  /\ \E embOk \in Outcomes, upOk \in Outcomes :
                /\ (skip \/ ~embOk) => upOk
                /\ skip => embOk
                /\ faults' = faults + Cost(embOk) + Cost(upOk)
                /\ store' = IF skip THEN store
                            ELSE StoreDocumentChunk(store, rec, run.client,
                                                    embOk, upOk)
                /\ run' = [run EXCEPT
                      !.ci = IF lastOne THEN 1 ELSE @ + 1,
                      !.di = IF lastOne /\ run.di < Len(docs) THEN @ + 1 ELSE @,
                      !.embedFailed = IF ~skip /\ ~embOk THEN @ \cup {item} ELSE @,
                      !.writeFailed = IF ~skip /\ ~upOk THEN @ \cup {item} ELSE @,
                      !.wrote = @ \/ (~skip /\ embOk),
                      !.lateEmbed = @ \/ (~skip /\ run.wrote),
                      !.failed = IF embOk /\ upOk THEN @ ELSE @ \cup {doc.source},
                      !.peak = IF skip THEN @
                               ELSE MaxOf(@, Cardinality(run.limiter.active) + 1)]
           /\ pc' = IF lastOne /\ run.di = Len(docs) THEN "finish"
                    ELSE "seedChunks"

\* executeFileActions returns, process() returns
Finish ==
    /\ pc = "finish"
    /\ result' = NoResult
    /\ Return(run, store, TRUE)
    /\ UNCHANGED <<boot, conn, scroll, calls, initialized, disk, store, faults, runs, edits>>

\* the user adds, rewrites or removes a file of the source directory
EditDisk(p, pages) ==
    /\ pc = "idle"
    /\ edits < MaxEdits
    /\ pages # disk[p]
    /\ disk' = [disk EXCEPT ![p] = pages]
    /\ edits' = edits + 1
    /\ result' = NoResult
    /\ UNCHANGED <<boot, conn, scroll, calls, initialized, store, pc, run, synced, last, faults, runs>>

MaxLimit == 2       \* largest limit of a search request

\* RagManager.searchChunks with a client: QdrantPersistence.searchChunks.
\* The query decides the scores, hence which `limit` candidates are the hits.
SearchChunks(client, source, limit) ==
    /\ result = NoResult
    /\ LET cands == SearchChunksCandidates(store, client, source) IN
       \E hits \in SUBSET cands :
          /\ Cardinality(hits) = IF Cardinality(cands) < limit
                                 THEN Cardinality(cands) ELSE limit
          /\ result' = [kind |-> "chunks", client |-> client,
                        source |-> source, hits |-> hits, reply |-> NoReply]
    /\ UNCHANGED <<boot, conn, scroll, calls, initialized, disk, store, pc, run, synced, last, faults, runs, edits>>

\* RagManager.searchCatalog with a client: QdrantPersistence.searchCatalog
SearchCatalog(client, limit) ==
    /\ result = NoResult
    /\ LET cands == SearchCatalogCandidates(store, client) IN
       \E hits \in SUBSET cands :
          /\ Cardinality(hits) = IF Cardinality(cands) < limit
                                 THEN Cardinality(cands) ELSE limit
          /\ result' = [kind |-> "catalog", client |-> client,
                        source |-> None, hits |-> hits, reply |-> NoReply]
    /\ UNCHANGED <<boot, conn, scroll, calls, initialized, disk, store, pc, run, synced, last, faults, runs, edits>>

\* ------------------------------------------------------------ tool calls
DefaultLimit == 10      \* index.ts: validated.limit || 10
MinLimit == 1           \* index.ts: args.limit < 1
LimitCap == 100         \* index.ts: args.limit > 100

Queries == {"q1", "q2"}
Tools == {"catalog_search", "chunks_search", "all_chunks_search"}

NoField == "none"
\* the checks the three validate functions share, in the order of the code;
\* each yields the field its Error message names
QueryError(args) ==
    IF args.query.type # "string" THEN "query" ELSE NoField
ClientError(args) ==
    IF args.client.type = "undefined" THEN NoField
    ELSE IF args.client.type # "string" THEN "client"
    ELSE IF args.client.str \notin Tenants THEN "client"
    ELSE NoField
SourceError(args) ==
    IF args.source.type \in {"undefined", "string"} THEN NoField ELSE "source"
LimitError(args) ==
    IF args.limit.type = "undefined" THEN NoField
    ELSE IF args.limit.type # "number" \/ args.limit.num < MinLimit
                                       \/ args.limit.num > LimitCap THEN "limit"
    ELSE NoField

FirstError(errors) ==
    LET bad == SelectSeq(errors, LAMBDA e : e # NoField) IN
    IF bad = <<>> THEN NoField ELSE Head(bad)

\* validateCatalogSearchRequest / validateChunksSearchRequest /
\* validateAllChunksSearchRequest: the field of the Error thrown, or NoField
ValidateCatalogSearchRequest(args) ==
    FirstError(<<QueryError(args), ClientError(args), LimitError(args)>>)
ValidateChunksSearchRequest(args) ==
    FirstError(<<QueryError(args), ClientError(args), SourceError(args),
                 LimitError(args)>>)
ValidateAllChunksSearchRequest(args) ==
    FirstError(<<QueryError(args), LimitError(args)>>)
Validate(name, args) ==
    IF name = "catalog_search" THEN ValidateCatalogSearchRequest(args)
    ELSE IF name = "chunks_search" THEN ValidateChunksSearchRequest(args)
    ELSE ValidateAllChunksSearchRequest(args)

\* validated.limit || 10
EffectiveLimit(args) ==
    IF args.limit.type = "number" /\ args.limit.num # 0 THEN args.limit.num
    ELSE DefaultLimit

\* The similarity the store computes between the vector of the query and
\* the vector of a point (Cosine distance of the collection), as an integer
\* rank: each query ranks the texts its own way.
TextRank(text) ==
    IF text.of = <<>> THEN 0
    ELSE Head(text.of).len \div 10 + Head(text.of).v + text.part
Score(query, vector) ==
    IF vector = EmptyEmbedding THEN 0
    ELSE IF query = "q1" THEN TextRank(vector[1])
    ELSE 200 - TextRank(vector[1])

\* freshClient.search(collection, {vector, limit, filter}): the `limit`
\* best points in descending order of score; points of equal score come
\* in any order
TopK(points, query, limit) ==
    LET n == MinOf(limit, Cardinality(points))
        best == {S \in SUBSET points :
                    /\ Cardinality(S) = n
                    /\ \A x \in S : \A y \in points \ S :
                          Score(query, x.vector) >= Score(query, y.vector)}
    IN  UNION {{s \in [1..n -> S] :
                   /\ \A i \in 1..n : \A j \in 1..n : i # j => s[i] # s[j]
                   /\ \A i \in 1..(n - 1) :
                         Score(query, s[i].vector) >= Score(query, s[i + 1].vector)} :
               S \in best}

\* results.map(result => ({type, score, source, content, metadata}))
SearchResult(type, collection, query, pt) ==
    [ type        |-> type,
      score       |-> Score(query, pt.vector),
      source      |-> pt.source,
      content     |-> IF type = "catalog" THEN pt.overview ELSE pt.chunk_content,
      collection  |-> collection,
      chunk_index |-> IF type = "catalog" THEN -1 ELSE pt.chunk_index ]

\* QdrantPersistence.searchCatalog / searchChunks when no call fails: the
\* lists the store can answer with
QdrantSearch(type, st, query, client, source, limit) ==
    LET name   == IF type = "catalog" THEN CatalogCollection(client)
                  ELSE ChunksCollection(client)
        points == IF type = "catalog" THEN SearchCatalogCandidates(st, client)
                  ELSE SearchChunksCandidates(st, client, source)
    IN  {[i \in 1..Len(s) |-> SearchResult(type, name, query, s[i])] :
            s \in TopK(points, query, limit)}

Take(s, n) == SubSeq(s, 1, MinOf(n, Len(s)))       \* s.slice(0, n)

\* mutant: the merged list keeps the order of the fan-out loop
InsertByScore_Append(sorted, x) == Append(sorted, x)

\* results.sort((a, b) => b.score - a.score): Array.prototype.sort is
\* stable, elements of equal score keep their order
InsertByScore(sorted, x) ==
    LET k == Cardinality({i \in 1..Len(sorted) : sorted[i].score >= x.score})
    IN  SubSeq(sorted, 1, k) \o <<x>> \o SubSeq(sorted, k + 1, Len(sorted))

RECURSIVE SortByScore(_)
SortByScore(s) ==
    IF s = <<>> THEN <<>>
    ELSE InsertByScore(SortByScore(SubSeq(s, 1, Len(s) - 1)), s[Len(s)])

\* Math.ceil(limit / clients.length)
PerClient(limit) == (limit + Len(clients) - 1) \div Len(clients)

\* mutant: the failed search of one client loses the results of all
CaughtSearch_Abort(down, client, lists) ==
    IF down # {} THEN {<<>>} ELSE lists

\* try { results.push(...clientResults) } catch { }: the search of a
\* client that is down contributes nothing
CaughtSearch(down, client, lists) ==
    IF client \in down THEN {<<>>} ELSE lists

\* the fan-out loop over `clients`, from client number i on: the lists
\* `results` can hold after the loop
RECURSIVE FanOut(_, _, _, _, _, _, _)
FanOut(type, st, query, source, limit, down, i) ==
    IF i > Len(clients) THEN {<<>>}
    ELSE {a \o b :
            a \in CaughtSearch(down, clients[i],
                     QdrantSearch(type, st, query, clients[i], source,
                                  PerClient(limit))),
            b \in FanOut(type, st, query, source, limit, down, i + 1)}

\* RagManager.searchCatalog / RagManager.searchChunks: what the call can
\* return or throw.  `down` are the clients whose search fails (query
\* embedding or store search).
RagManagerSearch(type, st, query, client, source, limit, down) ==
    LET name(c) == IF type = "catalog" THEN CatalogCollection(c)
                   ELSE ChunksCollection(c)
        up == SelectSeq(clients, LAMBDA c : c \notin down)
    IN
    IF client # None
    THEN IF client \in down
         THEN \* embedQuery threw, or the search that followed it did
              {[threw |-> TRUE, list |-> <<>>, embeds |-> 1, searched |-> sent] :
                  sent \in {<<>>, <<name(client)>>}}
         ELSE {[threw |-> FALSE, list |-> l, embeds |-> 1,
                searched |-> <<name(client)>>] :
                  l \in QdrantSearch(type, st, query, client, source, limit)}
    ELSE {[threw |-> FALSE, list |-> Take(SortByScore(l), limit),
           embeds |-> Len(clients),
           searched |-> [i \in 1..Len(up) |-> name(up[i])]] :
             l \in FanOut(type, st, query, source, limit, down, 1)}

\* QdrantPersistence.searchAllChunks behind RagManager.searchAllChunks: an
\* empty list when the query embedding fails, else the merge over the chunk
\* collections of the configuration
SearchAllChunks(st, query, limit, embOk, down) ==
    LET up == SelectSeq(clients, LAMBDA c : c \notin down) IN
    IF ~embOk THEN {[threw |-> FALSE, list |-> <<>>, embeds |-> 1,
                     searched |-> <<>>]}
    ELSE {[threw |-> FALSE, list |-> Take(SortByScore(l), limit),
           embeds |-> 1,
           searched |-> [i \in 1..Len(up) |-> ChunksCollection(up[i])]] :
             l \in FanOut("chunk", st, query, None, limit, down, 1)}

\* Math.ceil(limit / n) for a list of n clients or collections
PerEntry(names, limit) == (limit + Len(names) - 1) \div Len(names)

\* the chunk collections registered in QdrantPersistence.collections, a
\* Map keyed by collection name: a client named twice has one entry, at
\* the place of its first occurrence
RECURSIVE RegisteredClients(_)
RegisteredClients(cl) ==
    IF cl = <<>> THEN <<>>
    ELSE LET front == RegisteredClients(SubSeq(cl, 1, Len(cl) - 1))
         IN  IF cl[Len(cl)] \in SeqRange(front) THEN front
             ELSE Append(front, cl[Len(cl)])

\* a chunk search with `perLimit` in the collection of each client of
\* `names` in turn, from number i on; the search of a client whose
\* collection is missing or whose store search fails is caught
RECURSIVE ChunkFanOut(_, _, _, _, _, _)
ChunkFanOut(names, st, query, perLimit, down, i) ==
    IF i > Len(names) THEN {<<>>}
    ELSE {a \o b :
            a \in (IF names[i] \in down
                      \/ ChunksCollection(names[i]) \notin DOMAIN st
                   THEN {<<>>}
                   ELSE QdrantSearch("chunk", st, query, names[i], None,
                                     perLimit)),
            b \in ChunkFanOut(names, st, query, perLimit, down, i + 1)}

\* RagManager.searchChunks(query, undefined, undefined, limit) under the
\* client list cl: the loop over `clients`; when the embedding service is
\* down every client's search throws and is caught
FanOutSearchChunks(cl, st, query, limit, embOk, down) ==
    IF ~embOk THEN {<<>>}
    ELSE {Take(SortByScore(l), limit) :
             l \in ChunkFanOut(cl, st, query, PerEntry(cl, limit), down, 1)}

\* RagManager.searchAllChunks(query, limit) under the client list cl: the
\* loop over the chunk collections of this.collections
MergedSearchAllChunks(cl, st, query, limit, embOk, down) ==
    LET registered == RegisteredClients(cl) IN
    IF ~embOk \/ registered = <<>> THEN {<<>>}
    ELSE {Take(SortByScore(l), limit) :
             l \in ChunkFanOut(registered, st, query,
                               PerEntry(registered, limit), down, 1)}

\* the client lists of the model: CLIENT_COLLECTIONS with two names, with
\* a name given twice, with an empty name
ClientLists == {ParseClients(raw) :
                   raw \in {<<"acme", " beta">>, <<"acme", "acme">>,
                            <<"acme", "">>}}

\* one request is answered by both cross-client chunk searches, under the
\* same configuration and the same failures
CompareSearches(cl, query, limit, embOk, down) ==
    /\ result = NoResult
    /\ pc = "idle"
    /\ result' = [kind |-> "compare", client |-> None, source |-> None,
                  hits |-> {}, reply |-> NoReply,
                  compared |->
                     [clients |-> cl, limit |-> limit, down |-> down,
                      embOk |-> embOk,
                      fanOut |-> FanOutSearchChunks(cl, store, query, limit,
                                                    embOk, down),
                      merged |-> MergedSearchAllChunks(cl, store, query,
                                                       limit, embOk, down)]]
    /\ UNCHANGED <<boot, conn, scroll, calls, initialized, disk, store, pc,
                   run, synced, last, faults, runs, edits>>

\* `if (client)`, `if (source)`: undefined and "" mean none
Given(arg) == IF arg.type = "string" /\ arg.str # "" THEN arg.str ELSE None

\* the body of a tool after its validate call: the replies it can give
Search(name, args, st, embOk, down) ==
    LET limit == EffectiveLimit(args)
        outs  == IF name = "catalog_search"
                 THEN RagManagerSearch("catalog", st, args.query.str,
                          Given(args.client), None, limit, down)
                 ELSE IF name = "chunks_search"
                 THEN RagManagerSearch("chunk", st, args.query.str,
                          Given(args.client), Given(args.source), limit, down)
                 ELSE SearchAllChunks(st, args.query.str, limit, embOk, down)
    IN  {[kind |-> IF o.threw THEN "error" ELSE "list",
          tool |-> name, args |-> args, limit |-> limit, list |-> o.list,
          down |-> down, embOk |-> embOk,
          field |-> IF o.threw THEN "backend" ELSE None,
          contacted |-> TRUE,
          embeds |-> o.embeds, searched |-> o.searched] : o \in outs}

\* the reply to a request that a validate function rejected
Rejected(name, args, field, contacted) ==
    [NoReply EXCEPT !.kind = "error", !.tool = name, !.args = args,
                    !.field = field, !.contacted = contacted]

\* index.ts, CallToolRequestSchema handler: validate, search, reply; every
\* Error becomes an McpError carrying its message
CallTool(name, args, embOk, down) ==
    /\ result = NoResult
    /\ LET field == Validate(name, args) IN
       IF field # NoField
       THEN result' = [NoResult EXCEPT !.reply = Rejected(name, args, field, FALSE)]
       ELSE \E r \in Search(name, args, store, embOk, down) :
               result' = [NoResult EXCEPT !.reply = r]
    /\ UNCHANGED <<boot, conn, scroll, calls, initialized, disk, store, pc, run, synced, last, faults, runs, edits>>

\* handlers.ts, catalogSearchHandler / chunksSearchHandler /
\* allChunksSearchHandler: ensureInitialized, validate, search
Handler(name, args, initOk, embOk, down) ==
    /\ result = NoResult
    /\ initialized => initOk
    /\ UNCHANGED <<boot, conn, scroll, calls, disk, store, pc, run, synced, last, faults, runs, edits>>
    /\ IF ~initOk
       THEN \* ragManager.initialize() rejects: the flag stays false
            /\ initialized' = FALSE
            /\ result' = [NoResult EXCEPT
                             !.reply = Rejected(name, args, "backend", TRUE)]
       ELSE /\ initialized' = TRUE
            /\ LET field == Validate(name, args) IN
               IF field # NoField
               THEN result' = [NoResult EXCEPT
                          !.reply = Rejected(name, args, field, ~initialized)]
               ELSE \E r \in Search(name, args, store, embOk, down) :
                       result' = [NoResult EXCEPT !.reply = r]

\* ------------------------------------- index.ts: the CallTool dispatcher
\* the names of the `case` labels of the switch, and names that have none
KnownTools == Tools \cup {"collection_info"}
UnknownTools == {"catalog_find", ""}

\* an Error: new Error(message) has no code, new McpError(code, message)
\* has one and a message that starts with "MCP error <code>"
NoError == [code |-> None, message |-> <<>>]
PlainError(message) == [code |-> None, message |-> message]
McpError(code, message) ==
    [code |-> code, message |-> <<"MCP error", code>> \o message]

\* the catch of the handler: whatever the switch threw becomes an
\* McpError with ErrorCode.InternalError and the message of what it caught
Caught(error) == McpError("InternalError", error.message)

\* RagManager.getCollectionInfo: the status it reports; it never throws
CollectionInfoStatus(listOk) ==
    IF listOk THEN "ok" ELSE IF conn.initialized THEN "error" ELSE "failed"

\* the CallTool handler as a whole: the check of empty arguments, the
\* switch on the name, the catch around the switch
Dispatch(name, args, embOk, down, listOk) ==
    /\ result = NoResult
    /\ UNCHANGED <<boot, conn, scroll, calls, initialized, disk, store, pc, run, synced, last, faults, runs, edits>>
    /\ LET failed(e) == [kind |-> "dispatch", client |-> None, source |-> None,
                         hits |-> {},
                         reply |-> [NoReply EXCEPT !.kind = "error",
                                       !.tool = name, !.args = args],
                         error |-> e]
           replied(r) == [kind |-> "dispatch", client |-> None,
                          source |-> None, hits |-> {}, reply |-> r,
                          error |-> NoError]
       IN  IF args = NoArgs /\ name \in Tools
           THEN result' = failed(McpError("InvalidParams",
                                     <<"requires arguments", name>>))
           ELSE IF name \in Tools
           THEN LET field == Validate(name, args) IN
                IF field # NoField
                THEN result' = failed(Caught(PlainError(<<"invalid", field>>)))
                ELSE \E r \in Search(name, args, store, embOk, down) :
                        result' = IF r.kind = "error"
                                  THEN failed(Caught(PlainError(<<"backend">>)))
                                  ELSE replied(r)
           ELSE IF name = "collection_info"
           THEN result' = replied([NoReply EXCEPT !.kind = "info",
                              !.tool = name, !.args = args,
                              !.field = CollectionInfoStatus(listOk),
                              !.contacted = TRUE])
           ELSE result' = failed(Caught(McpError("MethodNotFound",
                                           <<"Unknown tool", name>>)))

\* the requests of the model: every combination of valid arguments, and
\* a valid request with one argument made invalid
ValidArgs ==
    [query  : {Str(q) : q \in Queries},
     client : {Undefined} \cup {Str(t) : t \in Tenants},
     source : {Undefined, Str(PathOrder[1])},
     limit  : {Undefined} \cup {Num(n) : n \in MinLimit..MaxLimit}]
PlainArgs == [NoArgs EXCEPT !.query = Str("q1")]
OddArgs ==
    { [PlainArgs EXCEPT !.query = Num(7)],
      [PlainArgs EXCEPT !.client = Num(7)],
      [PlainArgs EXCEPT !.client = Str("nope")],
      [PlainArgs EXCEPT !.source = Num(7)],
      [PlainArgs EXCEPT !.limit = Str("5")],
      [PlainArgs EXCEPT !.limit = Num(MinLimit - 1)],
      [PlainArgs EXCEPT !.limit = Num(LimitCap + 1)] }
\* a request of a client whose source argument is the empty string
EmptyArgs == { [PlainArgs EXCEPT !.client = Str(clients[1]), !.source = Str("")] }
Requests(name) ==
    {a \in ValidArgs \cup OddArgs \cup EmptyArgs :
        /\ name # "chunks_search" => a.source = Undefined
        /\ name = "all_chunks_search" => a.client = Undefined}

\* the failures that can tell on a request: the embedding call of
\* searchAllChunks, and the searches of the clients the request reaches
Failures(name, args) ==
    {f \in [embOk : BOOLEAN, down : SUBSET Tenants] :
        /\ Validate(name, args) # NoField => (f.embOk /\ f.down = {})
        /\ name # "all_chunks_search" => f.embOk
        /\ ~f.embOk => f.down = {}
        /\ Given(args.client) # None => f.down \subseteq {Given(args.client)}}

\* the steps of a started run, and the edits of the directory
Steps ==
    \/ ExecuteFileAction
    \/ EmbedDocuments
    \/ SeedCatalogEntry
    \/ SeedDocumentChunk
    \/ Finish
    \/ \E p \in Paths : \E pages \in FileTexts(p) \cup {Absent} : EditDisk(p, pages)

\* seed runs of the first client with the default options or --validate-only
Next ==
    \/ \E vo \in BOOLEAN : StartSync(clients[1], FALSE, vo)
    \/ Steps

\* seed runs of every client with every combination of options
NextAll ==
    \/ \E t \in Tenants, ow \in BOOLEAN, vo \in BOOLEAN : StartSync(t, ow, vo)
    \/ Steps

\* seed runs of every client with the default options, and the query layer
NextQuery ==
    \/ \E t \in Tenants : StartSync(t, FALSE, FALSE)
    \/ Steps
    \/ \E t \in Tenants, src \in Paths \cup {None}, n \in 1..MaxLimit :
          SearchChunks(t, src, n)
    \/ \E t \in Tenants, n \in 1..MaxLimit : SearchCatalog(t, n)

\* seed runs of every client with the default options on a directory
\* that is left alone, and the tools of the MCP server
NextTools ==
    \/ \E t \in Tenants : StartSync(t, FALSE, FALSE)
    \/ ExecuteFileAction
    \/ EmbedDocuments
    \/ SeedCatalogEntry
    \/ SeedDocumentChunk
    \/ Finish
    \/ \E name \in Tools : \E args \in Requests(name) :
       \E f \in Failures(name, args) : CallTool(name, args, f.embOk, f.down)

\* seed runs of every client on a directory that is left alone, and the
\* requests of the CallTool handler: the three searches with any
\* arguments or none, collection_info, and names of no tool
NextDispatch ==
    \/ \E t \in Tenants : StartSync(t, FALSE, FALSE)
    \/ ExecuteFileAction
    \/ EmbedDocuments
    \/ SeedCatalogEntry
    \/ SeedDocumentChunk
    \/ Finish
    \/ \E name \in Tools : \E args \in Requests(name) \cup {NoArgs} :
       \E f \in Failures(name, args) :
          Dispatch(name, args, f.embOk, f.down, TRUE)
    \/ \E name \in {"collection_info"} \cup UnknownTools :
       \E args \in {NoArgs, PlainArgs} : \E listOk \in BOOLEAN :
          Dispatch(name, args, TRUE, {}, listOk)

\* seed runs of every client on a directory that is left alone, and the
\* two cross-client chunk searches side by side
NextCompare ==
    \/ \E t \in Tenants : StartSync(t, FALSE, FALSE)
    \/ ExecuteFileAction
    \/ EmbedDocuments
    \/ SeedCatalogEntry
    \/ SeedDocumentChunk
    \/ Finish
    \/ \E cl \in ClientLists, query \in Queries, limit \in 1..MaxLimit,
          embOk \in BOOLEAN :
       \E down \in SUBSET SeqRange(cl) :
          CompareSearches(cl, query, limit, embOk, down)

\* seed runs of the first client on a directory that is left alone, the
\* tools of the MCP server and the exported tool handlers
NextHandlers ==
    \/ StartSync(clients[1], FALSE, FALSE)
    \/ ExecuteFileAction
    \/ EmbedDocuments
    \/ SeedCatalogEntry
    \/ SeedDocumentChunk
    \/ Finish
    \/ \E name \in Tools : \E args \in Requests(name) :
       \E f \in Failures(name, args) : CallTool(name, args, f.embOk, f.down)
    \/ \E name \in Tools : \E args \in Requests(name) :
       \E initOk \in BOOLEAN : \E f \in Failures(name, args) :
          (initOk \/ (f.embOk /\ f.down = {}))
             /\ Handler(name, args, initOk, f.embOk, f.down)

\* seed runs of the first client with the default options on a directory
\* that is left alone
NextBatch ==
    \/ StartSync(clients[1], FALSE, FALSE)
    \/ ExecuteFileAction
    \/ EmbedDocuments
    \/ SeedCatalogEntry
    \/ SeedDocumentChunk
    \/ Finish

\* config.ts at import: QDRANT_URL is required (process.exit(1)); the
\* client names are taken as they come
LoadConfig ==
    /\ boot.stage = "start"
    /\ boot' = IF boot.url = NoUrl THEN [boot EXCEPT !.stage = "exited"]
               ELSE [boot EXCEPT !.stage = "loaded",
                                 !.clients = ParseClients(boot.raw)]
    /\ UNCHANGED <<disk, store, pc, run, synced, last, result, faults, runs,
                   edits, initialized, conn, scroll, calls>>

\* seed.ts validateArgs: --client is given and is one of clients
ArgsAccepted(arg, cl) == arg # "" /\ arg \in SeqRange(cl)

ValidateArgs ==
    /\ boot.stage = "loaded"
    /\ boot.entry = "seed"
    /\ boot' = [boot EXCEPT !.stage = IF ArgsAccepted(boot.arg, boot.clients)
                                      THEN "validated" ELSE "exited"]
    /\ UNCHANGED <<disk, store, pc, run, synced, last, result, faults, runs,
                   edits, initialized, conn, scroll, calls>>

\* QdrantPersistence constructor: the scheme test, then new URL
UrlAccepted(url) == url.scheme \in {"http", "https"} /\ url.host # ""

\* new RagServer() at the top of index.ts, new DocumentProcessor(config)
\* in main() of seed.ts: both construct a QdrantPersistence
Construct ==
    /\ \/ boot.stage = "loaded" /\ boot.entry = "server"
       \/ boot.stage = "validated"
    /\ boot' = [boot EXCEPT !.stage = IF UrlAccepted(boot.url)
                                      THEN "constructed" ELSE "exited"]
    /\ UNCHANGED <<disk, store, pc, run, synced, last, result, faults, runs,
                   edits, initialized, conn, scroll, calls>>

\* QdrantPersistence.initialize: !existingNames.has(collection.name)
NeedsCreate(existingNames, name) == name \notin existingNames

\* QdrantPersistence.initialize, the loop over ragConfig.collections from
\* position i on. existingNames is the list read before the loop.
\*   failAt, failPart - the collection for which a call of createCollection
\*                      fails, and whether it is the create or an index call
RECURSIVE CreateCollections(_, _, _, _, _, _)
CreateCollections(names, i, existingNames, b, failAt, failPart) ==
    IF i > Len(names) THEN [b EXCEPT !.stage = "ready"]
    ELSE IF ~NeedsCreate(existingNames, names[i])
    THEN \* ensureIndexes catches its errors
         CreateCollections(names, i + 1, existingNames, b, failAt, failPart)
    ELSE IF i = failAt /\ failPart = "create"
    THEN [b EXCEPT !.stage = "exited", !.faulted = TRUE]
    ELSE IF names[i] \in b.existing
    THEN \* the store rejects the creation of a collection it holds
         [b EXCEPT !.stage = "exited"]
    ELSE LET b1 == [b EXCEPT !.existing = @ \cup {names[i]},
                             !.created = @ \cup {names[i]}]
         IN  IF i = failAt
             THEN [b1 EXCEPT !.stage = "exited", !.faulted = TRUE]
             ELSE CreateCollections(names, i + 1, existingNames, b1,
                                    failAt, failPart)

\* RagServer.run / DocumentProcessor.process: initialize() - connect, then
\* create the collections that are missing. An error ends the process.
Initialize ==
    /\ boot.stage = "constructed"
    /\ UNCHANGED <<disk, store, pc, run, synced, last, result, runs, edits,
                   initialized, conn, scroll, calls>>
    /\ \E connOk \in Outcomes :
          IF ~connOk
          THEN /\ faults' = faults + 1
               /\ boot' = [boot EXCEPT !.stage = "exited", !.faulted = TRUE]
          ELSE LET names == ConfigCollections(boot.clients) IN
               \E failAt \in 0..(IF faults < MaxFaults THEN Len(names) ELSE 0) :
               \E failPart \in {"create", "index"} :
                  LET b == CreateCollections(names, 1, boot.existing, boot,
                                             failAt, failPart)
                  IN  /\ failAt = 0 => failPart = "create"
                      /\ failAt > 0 => b.faulted
                      /\ boot' = b
                      /\ faults' = faults + (IF b.faulted THEN 1 ELSE 0)

\* mutant: the delay stays as it is
NextDelay_Constant(delay) == delay

\* QdrantPersistence.connect: delay *= 2
NextDelay(delay) == delay * 2

\* QdrantPersistence.connect is called: `if (this.initialized) return`,
\* else retries = 3, delay = 2000 and the loop is entered
ConnectEnter ==
    /\ pc = "idle"
    /\ conn.pc \in {"none", "returned", "thrown"}
    /\ conn.n < MaxRuns
    /\ conn' = IF conn.initialized
               THEN [conn EXCEPT !.pc = "returned", !.attempts = <<>>,
                                 !.waits = <<>>, !.n = @ + 1]
               ELSE [conn EXCEPT !.pc = "call", !.retries = 3, !.delay = 2000,
                                 !.attempts = <<>>, !.waits = <<>>,
                                 !.n = @ + 1]
    /\ UNCHANGED <<boot, scroll, calls, initialized, disk, store, pc, run,
                   synced, last, result, faults, runs, edits>>

\* QdrantPersistence.connect, loop body: await this.client.getCollections()
\* resolves (initialized = true; break) or rejects (retries--; throw when
\* retries === 0)
ConnectAttempt ==
    /\ conn.pc = "call"
    /\ \E ok \in BOOLEAN :
          conn' = IF ok
                  THEN [conn EXCEPT !.pc = "returned", !.initialized = TRUE,
                                    !.attempts = Append(@, TRUE)]
                  ELSE [conn EXCEPT !.pc = IF conn.retries - 1 = 0
                                           THEN "thrown" ELSE "sleep",
                                    !.retries = @ - 1,
                                    !.attempts = Append(@, FALSE)]
    /\ UNCHANGED <<boot, scroll, calls, initialized, disk, store, pc, run,
                   synced, last, result, faults, runs, edits>>

\* QdrantPersistence.connect, end of the catch block: the timer of
\* setTimeout(resolve, delay) fires, then delay *= 2
ConnectSleep ==
    /\ conn.pc = "sleep"
    /\ conn' = [conn EXCEPT !.pc = "call", !.waits = Append(@, conn.delay),
                            !.delay = NextDelay(@)]
    /\ UNCHANGED <<boot, scroll, calls, initialized, disk, store, pc, run,
                   synced, last, result, faults, runs, edits>>

\* a seed process: initialize() connects, then the run; a failed
\* connect() ends the process and the next one connects anew
NextConnect ==
    \/ ConnectEnter
    \/ ConnectAttempt
    \/ ConnectSleep
    \/ conn.pc = "returned" /\ StartSync(clients[1], FALSE, FALSE)
    \/ ExecuteFileAction
    \/ EmbedDocuments
    \/ SeedCatalogEntry
    \/ SeedDocumentChunk
    \/ Finish

\* source paths of documents a client may hold
IdSources == {"a.pdf", "notes/n60907.md", "notes/n165272.md",
              "notes/n4530.md", "notes/n13920.md"}

\* seedDocuments for one document: storeCatalogEntry is called with the
\* catalog entry of a document of the first client
UpsertCatalogEntry(source) ==
    /\ pc = "idle"
    /\ LET doc == CreateProcessedDocument(source, LongText2,
                                          Sha256(LongText2), TRUE)
       IN  store' = StoreCatalogEntry(store,
                       [source |-> doc.source, hash |-> doc.hash,
                        content |-> doc.content, overview |-> doc.overview,
                        created_at |-> runs], clients[1], TRUE, TRUE)
    /\ UNCHANGED <<boot, conn, scroll, calls, initialized, disk, pc, run,
                   synced, last, result, faults, runs, edits>>

\* seedDocuments for one chunk: storeDocumentChunk is called with chunk k
\* (counted from 1)
\* of a document of the first client
UpsertDocumentChunk(source, k) ==
    /\ pc = "idle"
    /\ LET doc == CreateProcessedDocument(source, LongText2,
                                          Sha256(LongText2), TRUE)
       IN  /\ k \in 1..Len(doc.chunks)
           /\ store' = StoreDocumentChunk(store,
                          [source |-> doc.source, hash |-> doc.hash,
                           content |-> doc.content,
                           chunk_index |-> doc.chunks[k].index,
                           chunk_total |-> doc.chunks[k].total,
                           chunk_content |-> doc.chunks[k].content,
                           created_at |-> runs], clients[1], TRUE, TRUE)
    /\ UNCHANGED <<boot, conn, scroll, calls, initialized, disk, pc, run,
                   synced, last, result, faults, runs, edits>>

\* the records of documents are upserted, in any order and any number of
\* times
NextIds ==
    \/ \E source \in IdSources : UpsertCatalogEntry(source)
    \/ \E source \in IdSources : UpsertDocumentChunk(source, 1)

\* a process starts and gets ready, or exits
NextStartup ==
    \/ LoadConfig
    \/ ValidateArgs
    \/ Construct
    \/ Initialize

\* the values of the environment variable CONCURRENCY
Concurrencies == {1, 2, CONCURRENCY}

\* seed runs of the first client, the embedding calls followed one by one
NextLimiter ==
    \/ \E c \in Concurrencies : StartSyncEnv(clients[1], FALSE, FALSE, c)
    \/ ExecuteFileAction
    \/ SubmitOverviews
    \/ CompleteOverview
    \/ StartBatch
    \/ CompleteBatch
    \/ ReturnEmbeddings
    \/ SeedCatalogEntry
    \/ SeedDocumentChunk
    \/ Finish

\* every external call may fail, at most MaxFaults times in all
Spec == Init /\ [][Next]_vars

\* no external call fails
InitNoFault == InitState /\ faults = MaxFaults
SpecNoFault == InitNoFault /\ [][NextAll]_vars
SpecQuery == InitNoFault /\ [][NextQuery]_vars
\* a directory with a file of three embedding batches beside a file of one
\* nothing has run yet: empty collections, no call has failed
FreshProcess ==
    /\ boot = Booted
    /\ store = [c \in Collections |-> {}]
    /\ pc = "idle"
    /\ run = IdleRun
    /\ synced = [t \in Tenants |-> NoSync]
    /\ last = NoLast
    /\ result = NoResult
    /\ runs = 0
    /\ edits = 0
    /\ initialized = FALSE
    /\ conn = Connection(boot.stage = "ready")
    /\ scroll = NoScroll
    /\ calls = NoHandlerCalls
    /\ faults = 0
InitBatch ==
    /\ disk = [p \in Paths |-> IF p = PathOrder[1] THEN HugeText ELSE LongText2]
    /\ FreshProcess
\* the store after a sync of the first client in which the embedding of
\* the second chunk of `pages` failed: the catalog entry and the first
\* chunk of the first path are stored
PartialStore(pages) ==
    LET doc == CreateProcessedDocument(PathOrder[1], pages, Sha256(pages), TRUE)
        s1  == StoreCatalogEntry([c \in Collections |-> {}],
                  [source |-> doc.source, hash |-> doc.hash,
                   content |-> doc.content, overview |-> doc.overview,
                   created_at |-> 0], clients[1], TRUE, TRUE)
    IN  StoreDocumentChunk(s1,
           [source |-> doc.source, hash |-> doc.hash, content |-> doc.content,
            chunk_index |-> doc.chunks[1].index,
            chunk_total |-> doc.chunks[1].total,
            chunk_content |-> doc.chunks[1].content, created_at |-> 0],
           clients[1], TRUE, TRUE)

\* a directory with a file of two chunks, never synced or synced with a
\* failed embedding, with or without a second file
InitPartial ==
    /\ disk \in {d \in [Paths -> Texts \cup {Absent}] :
                    /\ d[PathOrder[1]] = LongText2
                    /\ d[PathOrder[2]] \in {Absent, ShortText, LongText}}
    /\ boot = Booted
    /\ store \in {[c \in Collections |-> {}], PartialStore(LongText2)}
    /\ pc = "idle"
    /\ run = IdleRun
    /\ synced = [t \in Tenants |-> NoSync]
    /\ last = NoLast
    /\ result = NoResult
    /\ runs = 0
    /\ edits = 0
    /\ initialized = FALSE
    /\ conn = Connection(boot.stage = "ready")
    /\ scroll = NoScroll
    /\ calls = NoHandlerCalls
    /\ faults = 0
SpecPartial == InitPartial /\ [][NextBatch]_vars
\* the store after every client has synced a directory that held `pages`
\* (one chunk) as its first path
SharedStore(pages) ==
    LET doc == CreateProcessedDocument(PathOrder[1], pages, Sha256(pages), TRUE)
        Seeded(st, t) ==
            StoreDocumentChunk(
               StoreCatalogEntry(st,
                  [source |-> doc.source, hash |-> doc.hash,
                   content |-> doc.content, overview |-> doc.overview,
                   created_at |-> 0], t, TRUE, TRUE),
               [source |-> doc.source, hash |-> doc.hash,
                content |-> doc.content,
                chunk_index |-> doc.chunks[1].index,
                chunk_total |-> doc.chunks[1].total,
                chunk_content |-> doc.chunks[1].content, created_at |-> 0],
               t, TRUE, TRUE)
    IN  Seeded(Seeded([c \in Collections |-> {}], clients[1]), clients[2])

\* every client has synced the first file; the file is as it was, has been
\* rewritten or has been removed
InitTenants ==
    /\ boot = Booted
    /\ disk \in {d \in [Paths -> Texts \cup {Absent}] :
                    /\ d[PathOrder[1]] \in {LongText, LongText2, Absent}
                    /\ d[PathOrder[2]] \in {Absent, ShortText}}
    /\ store = SharedStore(LongText)
    /\ pc = "idle"
    /\ run = IdleRun
    /\ synced = [t \in Tenants |-> NoSync]
    /\ last = NoLast
    /\ result = NoResult
    /\ runs = 0
    /\ edits = 0
    /\ initialized = FALSE
    /\ conn = Connection(boot.stage = "ready")
    /\ scroll = NoScroll
    /\ calls = NoHandlerCalls
    /\ faults = 0
\* seed runs of every client with the default options
NextTenants ==
    \/ \E t \in Tenants : StartSync(t, FALSE, FALSE)
    \/ ExecuteFileAction
    \/ EmbedDocuments
    \/ SeedCatalogEntry
    \/ SeedDocumentChunk
    \/ Finish
SpecTenants == InitTenants /\ [][NextTenants]_vars
\* a directory whose first file is summarised, with or without a second one
InitLimiter ==
    /\ disk \in {d \in [Paths -> Texts \cup {Absent}] :
                    /\ d[PathOrder[1]] \in {LongText, LongText2}
                    /\ d[PathOrder[2]] \in {Absent, ShortText, LongText}}
    /\ FreshProcess
\* a process about to start, over the environments of the model
InitStartup ==
    /\ boot \in {Process(url, raw, entry, arg, existing) :
                    url \in Urls, raw \in RawClients,
                    entry \in {"server", "seed"}, arg \in ClientArgs,
                    existing \in {{}, {CatalogCollection("acme")}, Collections}}
    /\ boot.entry = "server" => boot.arg = ""
    /\ disk = [p \in Paths |-> Absent]
    /\ store = [c \in Collections |-> {}]
    /\ pc = "idle"
    /\ run = IdleRun
    /\ synced = [t \in Tenants |-> NoSync]
    /\ last = NoLast
    /\ result = NoResult
    /\ runs = 0
    /\ edits = 0
    /\ initialized = FALSE
    /\ conn = Connection(boot.stage = "ready")
    /\ scroll = NoScroll
    /\ calls = NoHandlerCalls
    /\ faults = 0
SpecStartup == InitStartup /\ [][NextStartup]_vars
\* ------------------------------------------- handlers.ts: ensureInitialized
MaxCalls == 2       \* handler calls in flight in one behaviour

\* one call of a handler, at an await of ensureInitialized:
\*   pc      - "connect" (await getCollections in connect), "list" (await
\*             getCollections in initialize), "create" (in the loop over
\*             the collections), "ready" (ensureInitialized returned),
\*             "failed" (it threw)
\*   retries - the local of connect()
\*   known   - existingNames of initialize()
\*   k       - position of the loop over ragConfig.collections
\*   ran     - history: the call has called ragManager.initialize()
\*   made    - history: the collections the call has created
HandlerCall(pos, ran) ==
    [pc |-> pos, retries |-> 3, known |-> {}, k |-> 0, ran |-> ran, made |-> {}]

\* a handler is called: ensureInitialized up to its first await.
\* `if (!initialized)` is false: nothing to wait for. Otherwise
\* ragManager.initialize() starts, and connect() returns at once when
\* this.initialized is set
EnsureEnter ==
    /\ Len(calls) < MaxCalls
    /\ calls' = Append(calls,
                   IF initialized THEN HandlerCall("ready", FALSE)
                   ELSE IF conn.initialized THEN HandlerCall("list", TRUE)
                   ELSE HandlerCall("connect", TRUE))
    /\ UNCHANGED <<boot, conn, scroll, initialized, disk, store, pc, run, synced, last, result, faults, runs, edits>>

\* connect(): getCollections settles. A failure leaves the loop when no
\* retry is left, and sleeps and tries again otherwise
EnsureConnect(i, ok) ==
    /\ calls[i].pc = "connect"
    /\ IF ok
       THEN /\ conn' = [conn EXCEPT !.initialized = TRUE]
            /\ calls' = [calls EXCEPT ![i].pc = "list"]
       ELSE /\ conn' = conn
            /\ calls' = [calls EXCEPT
                            ![i].retries = @ - 1,
                            ![i].pc = IF calls[i].retries = 1
                                      THEN "failed" ELSE "connect"]
    /\ UNCHANGED <<boot, scroll, initialized, disk, store, pc, run, synced, last, result, faults, runs, edits>>

\* initialize(): getCollections settles, existingNames is taken
EnsureList(i) ==
    /\ calls[i].pc = "list"
    /\ calls' = [calls EXCEPT ![i].known = boot.existing, ![i].k = 1,
                              ![i].pc = "create"]
    /\ UNCHANGED <<boot, conn, scroll, initialized, disk, store, pc, run, synced, last, result, faults, runs, edits>>

\* ensureInitialized: `initialized = true` follows the await
EnsureFlag(flag, ready) == flag \/ ready

\* initialize(): one pass of the loop, createCollection or ensureIndexes
\* settles. The store rejects the creation of a collection it holds.
\* After the last pass initialize() returns and the flag is set
EnsureCreate(i) ==
    /\ calls[i].pc = "create"
    /\ LET names == ConfigCollections(boot.clients)
           name  == names[calls[i].k]
           new   == name \notin calls[i].known
           last_ == calls[i].k = Len(names)
       IN  IF new /\ name \in boot.existing
           THEN /\ calls' = [calls EXCEPT ![i].pc = "failed"]
                /\ UNCHANGED <<boot, initialized>>
           ELSE /\ boot' = IF new
                           THEN [boot EXCEPT !.existing = @ \cup {name},
                                             !.created = @ \cup {name}]
                           ELSE boot
                /\ calls' = [calls EXCEPT
                                ![i].made = IF new THEN @ \cup {name} ELSE @,
                                ![i].k = IF last_ THEN @ ELSE @ + 1,
                                ![i].pc = IF last_ THEN "ready" ELSE "create"]
                /\ initialized' = EnsureFlag(initialized, last_)
    /\ UNCHANGED <<conn, scroll, disk, store, pc, run, synced, last, result, faults, runs, edits>>

NextEnsure ==
    \/ EnsureEnter
    \/ \E i \in DOMAIN calls : \E ok \in BOOLEAN : EnsureConnect(i, ok)
    \/ \E i \in DOMAIN calls : EnsureList(i)
    \/ \E i \in DOMAIN calls : EnsureCreate(i)

\* a server whose handlers have not been called, on a store that holds
\* none, some or all of the collections of the configuration
InitEnsure ==
    /\ boot \in {[Booted EXCEPT !.existing = e, !.before = e] :
                    e \in {{}, {CatalogCollection(clients[1])}, Collections}}
    /\ disk = [p \in Paths |-> Absent]
    /\ store = [c \in Collections |-> {}]
    /\ pc = "idle"
    /\ run = IdleRun
    /\ synced = [t \in Tenants |-> NoSync]
    /\ last = NoLast
    /\ result = NoResult
    /\ runs = 0
    /\ edits = 0
    /\ initialized = FALSE
    /\ conn = Connection(FALSE)
    /\ scroll = NoScroll
    /\ calls = NoHandlerCalls
    /\ faults = 0
SpecEnsure == InitEnsure /\ [][NextEnsure]_vars

\* the calls that have run ragManager.initialize()
Initializers == {i \in DOMAIN calls : calls[i].ran}

\* C36: when several handler calls arrive before initialization has
\* finished, ragManager.initialize() is executed at most once
C36_InitializeAtMostOnce == Cardinality(Initializers) <= 1

\* a handler call that arrives after ensureInitialized has set the flag
\* does not run ragManager.initialize()
InitializeOnlyBeforeFlag ==
    [][\A i \in DOMAIN calls' :
          (i \notin DOMAIN calls /\ initialized) => ~calls'[i].ran]_vars

\* ----------------------------- qdrant.ts: getAllSourcesFromDB, page by page
MaxPoints == 200    \* points of the largest catalog collection
PageLimit == 100    \* qdrant.ts: scroll limit, `result.points.length < 100`

\* `offset` before the first page
NoOffset == <<>>

\* point ids are unsigned 32-bit integers, here as two 16-bit halves
IdLess(a, b) == a[1] < b[1] \/ (a[1] = b[1] /\ a[2] < b[2])

\* client.scroll with an empty filter: the points from `offset` on (the
\* point with that id included), in the order of their ids, `limit` at most
ScrollPoints(points, offset, limit) ==
    LET from == IF offset = NoOffset THEN points
                ELSE {p \in points : ~IdLess(p.id, offset)}
    IN  {p \in from : Cardinality({q \in from : IdLess(q.id, p.id)}) < limit}

\* result.points[result.points.length - 1]
LastPoint(page) == CHOOSE p \in page : \A q \in page : ~IdLess(p.id, q.id)

\* mutant: the loop ends after its first page
HasMore_Never(page) == FALSE

\* `if (result.points.length < 100) hasMore = false`
HasMore(page) == ~(Cardinality(page) < PageLimit)

\* getAllSourcesFromDB is called: connect() returns at once on a connected
\* store, the locals are set, the loop is entered
\*   failed - history: a scroll call was rejected
\*   pages  - history: scroll calls that were answered
ScrollEnter(client) ==
    /\ scroll.pc = "none"
    /\ conn.initialized
    /\ scroll' = [pc |-> "scroll", client |-> client, offset |-> NoOffset,
                  sources |-> {}, pages |-> 0, failed |-> FALSE]
    /\ UNCHANGED <<boot, conn, calls, initialized, disk, store, pc, run, synced, last, result, faults, runs, edits>>

\* one pass of the loop: the scroll call settles. A rejected call is
\* caught and ends the loop; an answered call adds its sources and either
\* ends the loop or moves offset to the id of the last point of the page.
\* When the loop has ended the sources are returned
ScrollNext(ok) ==
    /\ scroll.pc = "scroll"
    /\ IF ~ok
       THEN scroll' = [scroll EXCEPT !.pc = "returned", !.failed = TRUE]
       ELSE LET page == ScrollPoints(store[CatalogCollection(scroll.client)],
                                     scroll.offset, PageLimit)
                seen == scroll.sources \cup
                           {p.source : p \in {q \in page : q.source # ""}}
            IN  IF HasMore(page)
                THEN scroll' = [scroll EXCEPT !.sources = seen,
                                   !.pages = @ + 1,
                                   !.offset = LastPoint(page).id]
                ELSE scroll' = [scroll EXCEPT !.sources = seen,
                                   !.pages = @ + 1, !.pc = "returned"]
    /\ UNCHANGED <<boot, conn, calls, initialized, disk, store, pc, run, synced, last, result, faults, runs, edits>>

NextScroll ==
    \/ \E t \in Tenants : ScrollEnter(t)
    \/ \E ok \in BOOLEAN : ScrollNext(ok)

\* the catalog entry of the n-th document of a large directory; the ids
\* do not follow the order of the documents
NthEntry(n, client) ==
    [ id         |-> <<n % 7, n>>,
      vector     |-> Embed(<<"overview", n>>),
      source     |-> <<"notes", n>>,
      hash       |-> <<"hash", n>>,
      content    |-> <<"content", n>>,
      overview   |-> <<"overview", n>>,
      created_at |-> 0,
      type       |-> "catalog",
      writer     |-> client ]

\* a connected process; the catalog of the first client holds any number
\* of entries up to MaxPoints, the one of the others none
InitScroll ==
    /\ boot = Booted
    /\ disk = [p \in Paths |-> Absent]
    /\ \E n \in 0..MaxPoints :
          store = [c \in Collections |->
                      IF c = CatalogCollection(clients[1])
                      THEN {NthEntry(i, clients[1]) : i \in 1..n} ELSE {}]
    /\ pc = "idle"
    /\ run = IdleRun
    /\ synced = [t \in Tenants |-> NoSync]
    /\ last = NoLast
    /\ result = NoResult
    /\ runs = 0
    /\ edits = 0
    /\ initialized = FALSE
    /\ conn = Connection(TRUE)
    /\ scroll = NoScroll
    /\ calls = NoHandlerCalls
    /\ faults = 0
SpecScroll == InitScroll /\ [][NextScroll]_vars
\* the event loop runs the continuation of a settled scroll call
SpecScrollLive == SpecScroll /\ WF_vars(\E ok \in BOOLEAN : ScrollNext(ok))

\* the sources of the catalog collection the running call reads
StoredSources ==
    {q.source : q \in store[CatalogCollection(scroll.client)]}

\* a call has returned and none of its scroll calls failed: it returns
\* the stored sources, and it has asked for the pages that takes
ScrollExact ==
    (scroll.pc = "returned" /\ ~scroll.failed) =>
        /\ scroll.sources = StoredSources
        /\ scroll.sources = GetAllSourcesFromDB(store, scroll.client, TRUE)
        /\ (scroll.pages - 1) * (PageLimit - 1) <
              Cardinality(store[CatalogCollection(scroll.client)]) + 1

\* C38: getAllSourcesFromDB terminates for every catalog size and, when
\* no store call fails, returns exactly the set of source paths stored in
\* the tenant's catalog collection, also when the catalog holds more
\* points than one scroll page
C38_ScrollReturnsAllSources ==
    /\ []ScrollExact
    /\ (scroll.pc = "scroll") ~> (scroll.pc = "returned")

\* a call that needed three pages has returned every source
C38_Witness ==
    /\ scroll.pc = "returned"
    /\ ~scroll.failed
    /\ scroll.pages = 3
    /\ Cardinality(scroll.sources) > PageLimit
    /\ scroll.sources = StoredSources

\* a process whose QdrantPersistence has just been constructed, in a
\* directory with one or two files
InitConnect ==
    /\ boot = [Booted EXCEPT !.stage = "constructed"]
    /\ disk \in {d \in [Paths -> Texts \cup {Absent}] :
                    /\ d[PathOrder[1]] \in {LongText, LongText2}
                    /\ d[PathOrder[2]] \in {Absent, ShortText}}
    /\ store = [c \in Collections |-> {}]
    /\ pc = "idle"
    /\ run = IdleRun
    /\ synced = [t \in Tenants |-> NoSync]
    /\ last = NoLast
    /\ result = NoResult
    /\ runs = 0
    /\ edits = 0
    /\ initialized = FALSE
    /\ conn = Connection(FALSE)
    /\ scroll = NoScroll
    /\ calls = NoHandlerCalls
    /\ faults = 0
SpecConnect == InitConnect /\ [][NextConnect]_vars
SpecCompare == InitNoFault /\ [][NextCompare]_vars
SpecDispatch == InitNoFault /\ [][NextDispatch]_vars

\* the dispatcher has answered a request for a name that is no tool
UnknownToolCalled ==
    result.kind = "dispatch" /\ result.reply.tool \notin KnownTools

\* C37: calling the tool dispatcher with a name that is not one of
\* catalog_search, chunks_search, all_chunks_search, collection_info
\* yields an error with code MethodNotFound
C37_UnknownToolMethodNotFound ==
    UnknownToolCalled => result.error.code = "MethodNotFound"

\* such a call yields an error with code InternalError whose message is
\* the one of the MethodNotFound error the switch threw
UnknownToolInternalError ==
    UnknownToolCalled =>
        result.error = McpError("InternalError",
                           <<"MCP error", "MethodNotFound", "Unknown tool",
                             result.reply.tool>>)

SpecIds == InitNoFault /\ [][NextIds]_vars
\* seed runs whose action list reaches executeFileActions in any order
NextOrder ==
    \/ StartSync(clients[1], FALSE, FALSE)
    \/ Reorder
    \/ Steps
SpecOrder == Init /\ [][NextOrder]_vars
\* the event loop runs a pending request and a pending timer
SpecConnectLive ==
    SpecConnect /\ WF_vars(ConnectAttempt) /\ WF_vars(ConnectSleep)
SpecLimiter == InitLimiter /\ [][NextLimiter]_vars
SpecBatch == InitBatch /\ [][NextBatch]_vars
SpecTools == InitNoFault /\ [][NextTools]_vars
SpecHandlers == InitNoFault /\ [][NextHandlers]_vars

TypeOK ==
    /\ pc \in {"idle", "exec", "embed", "embedOverviews", "embedBatches",
               "seedCatalog", "seedChunks", "finish"}
    /\ faults \in 0..MaxFaults
    /\ runs \in 0..MaxRuns
    /\ edits \in 0..MaxEdits
    /\ DOMAIN store = Collections

\* ------------------------------------------------------------ properties
\* the run a state speaks about: the one in progress, else the last one
\* that returned (the store does not change between a return and the next
\* start)
Finished == pc = "idle" /\ last.valid
Synced   == Finished /\ ~last.run.validateOnly
TheRun   == IF pc = "idle" THEN last.run ELSE run

CatalogOf(t) == store[CatalogCollection(t)]
ChunksOf(t)  == store[ChunksCollection(t)]

ActionTypes(actions, p) ==
    {actions[i].type : i \in {j \in 1..Len(actions) : actions[j].source = p}}
ActionCount(actions, p, type) ==
    Cardinality({i \in 1..Len(actions) :
                    actions[i].source = p /\ actions[i].type = type})
ScannedPaths(dsk) == {p \in Paths : dsk[p] # Absent}

\* the last run is a repetition of the tenant's previous sync on the same
\* directory content
Resynced ==
    /\ Synced
    /\ last.run.prev.valid

\* C1: Idempotence - a second sync of an unchanged directory classifies
\* every scanned path SKIP (added = updated = deleted = 0) and leaves the
\* tenant's catalog and chunk store as the first sync left them.
C1_Idempotence ==
    (Resynced /\ ~last.run.overwrite /\ last.run.prev.disk = last.run.startDisk) =>
        /\ \A i \in 1..Len(last.run.actions) : last.run.actions[i].type = "SKIP"
        /\ \A p \in ScannedPaths(last.run.startDisk) :
              ActionTypes(last.run.actions, p) = {"SKIP"}
        /\ CatalogOf(last.run.client) = last.run.prev.catalog
        /\ ChunksOf(last.run.client) = last.run.prev.chunks

\* C2: Tombstone correctness - a previously synced file that was removed
\* gets exactly one DELETE action on the next sync, after which neither
\* the catalog nor the chunk store of the tenant holds a record of it.
C2_Tombstone ==
    Resynced =>
        \A p \in Paths :
           (last.run.prev.disk[p] # Absent /\ last.run.startDisk[p] = Absent) =>
              /\ ActionCount(last.run.actions, p, "DELETE") = 1
              /\ \A q \in CatalogOf(last.run.client) : q.source # p
              /\ \A q \in ChunksOf(last.run.client) : q.source # p

\* C3: Fingerprint sensitivity - a previously synced path whose text (hence
\* SHA-256 fingerprint) changed is classified UPDATE on the next sync, not
\* ADD and not SKIP.
C3_FingerprintSensitivity ==
    Resynced =>
        \A p \in Paths :
           ( /\ last.run.prev.disk[p] # Absent
             /\ last.run.startDisk[p] # Absent
             /\ Sha256(last.run.startDisk[p]) # Sha256(last.run.prev.disk[p]) ) =>
              ActionTypes(last.run.actions, p) = {"UPDATE"}

\* C4: a synced document below the summarisation threshold is still
\* tracked - unchanged it is classified SKIP; removed it is classified
\* DELETE and a chunk search of the tenant filtered by its path finds
\* nothing.
C4_ShortDocTracked ==
    Resynced =>
        \A p \in Paths :
           ( /\ last.run.prev.disk[p] # Absent
             /\ ContentLength(last.run.prev.disk[p]) <= SummaryThreshold ) =>
              /\ last.run.startDisk[p] = last.run.prev.disk[p] =>
                    ActionTypes(last.run.actions, p) = {"SKIP"}
              /\ last.run.startDisk[p] = Absent =>
                    /\ ActionTypes(last.run.actions, p) = {"DELETE"}
                    /\ SearchChunksCandidates(store, last.run.client, p) = {}

\* C5: with overwrite = true no scanned path is classified SKIP, and every
\* scanned path that has a stored fingerprint is classified UPDATE whether
\* or not the fingerprint matches.
C5_OverwriteForcesUpdate ==
    (Finished /\ last.run.overwrite) =>
        \A p \in ScannedPaths(last.run.startDisk) :
           /\ "SKIP" \notin ActionTypes(last.run.actions, p)
           /\ (\E q \in last.run.startStore[CatalogCollection(last.run.client)] :
                  q.source = p)
                 => ActionTypes(last.run.actions, p) = {"UPDATE"}


C7_TenantIsolation ==
    /\ result.kind = "chunks" =>
          /\ result.hits \subseteq ChunksOf(result.client)
          /\ \A h \in result.hits : h.writer = result.client
    /\ result.kind = "catalog" =>
          /\ result.hits \subseteq CatalogOf(result.client)
          /\ \A h \in result.hits : h.writer = result.client

\* a non-empty chunk search of one tenant while another tenant holds
\* records of the same path
C7_Witness ==
    /\ result.kind = "chunks"
    /\ result.hits # {}
    /\ \E t \in Tenants \ {result.client} :
          \E q \in ChunksOf(t) : \E h \in result.hits : q.source = h.source

\* C8: Chunk contiguity - after any sequence of sync runs the chunks stored
\* for a path carry the indexes 0..chunkTotal-1, each once, and the same
\* chunkTotal.
C8_ChunkContiguity ==
    pc = "idle" =>
        \A t \in Tenants : \A p \in Paths :
           LET pts == {q \in ChunksOf(t) : q.source = p} IN
           pts # {} =>
              /\ {q.chunk_index : q \in pts} = 0..(Cardinality(pts) - 1)
              /\ \A q \in pts : q.chunk_total = Cardinality(pts)

\* C9: during and after an UPDATE of a path the store never holds the
\* catalog record of the new version together with chunk records of an
\* old version of that path.
C9_UpdateReplacesTogether ==
    (pc # "idle" \/ (last.valid /\ last.executed)) =>
        \A i \in 1..Len(TheRun.actions) :
           LET a == TheRun.actions[i] IN
           (a.type = "UPDATE" /\
            \E c \in CatalogOf(TheRun.client) :
                c.source = a.source /\ c.hash = a.file.hash) =>
              \A k \in ChunksOf(TheRun.client) :
                 k.source = a.source => k.hash = a.file.hash

\* C10: no placeholder vector is ever stored, and an item (overview or
\* chunk) whose embedding call failed in a run is not written in that run.
C10_NoNullVector ==
    /\ \A t \in Tenants :
          /\ \A q \in CatalogOf(t) :
                q.vector # EmptyEmbedding /\ q.vector = Embed(q.overview)
          /\ \A q \in ChunksOf(t) :
                q.vector # EmptyEmbedding /\ q.vector = Embed(q.chunk_content)
    /\ (pc # "idle" \/ last.valid) =>
          /\ \A q \in CatalogOf(TheRun.client) :
                q.created_at = runs =>
                   CatalogItem(q.source) \notin TheRun.embedFailed
          /\ \A q \in ChunksOf(TheRun.client) :
                q.created_at = runs =>
                   ChunkItem(q.source, q.chunk_index) \notin TheRun.embedFailed

\* a finished run in which an embedding call failed and a point was written
C10_Witness ==
    /\ Finished
    /\ last.executed
    /\ last.run.embedFailed # {}
    /\ \E q \in ChunksOf(last.run.client) : q.created_at = runs

\* C11: a sync run always completes under partial failure - process()
\* never ends with an error because a call failed for one path, every
\* scanned path that no failure hit gets its action, and every chunk of an
\* added or updated path that no failure hit is written in the run.
C11_CompletesUnderPartialFailure ==
    (pc = "idle" /\ last.valid) =>
       /\ ~last.threw
       /\ \A p \in ScannedPaths(last.run.startDisk) \ last.run.failed :
             ActionTypes(last.run.actions, p) # {}
       /\ last.executed =>
             \A i \in 1..Len(last.run.actions) :
                LET a == last.run.actions[i] IN
                (a.type \in {"ADD", "UPDATE"} /\ a.source \notin last.run.failed) =>
                   \A k \in 1..Len(a.file.chunks) :
                      \E q \in ChunksOf(last.run.client) :
                         /\ q.source = a.source
                         /\ q.chunk_index = k - 1
                         /\ q.hash = a.file.hash
                         /\ q.created_at = runs

\* the fingerprints a tenant's store holds for a path: every catalog and
\* chunk record carries the hash of the version it was made of
StoredFingerprints(st, t, p) ==
    {q.hash : q \in {c \in st[CatalogCollection(t)] : c.source = p}}
       \cup {q.hash : q \in {c \in st[ChunksCollection(t)] : c.source = p}}

\* C12: change detection produces exactly one action per path found in the
\* scan or among the tenant's stored paths - ADD for a scanned path without
\* stored fingerprint, SKIP with an equal one, UPDATE with a different one,
\* DELETE for a stored path that is not in the scan - and no action for any
\* other path.
C12_OneActionPerPath ==
    (last.valid /\ ~last.threw /\ ScannedPaths(last.run.startDisk) # {}) =>
        \A p \in Paths :
           LET stored   == StoredFingerprints(last.run.startStore, last.run.client, p)
               scanned  == p \in ScannedPaths(last.run.startDisk)
               n        == Cardinality({i \in 1..Len(last.run.actions) :
                                           last.run.actions[i].source = p})
               expected == IF ~scanned THEN "DELETE"
                           ELSE IF stored = {} THEN "ADD"
                           ELSE IF stored = {Sha256(last.run.startDisk[p])} THEN "SKIP"
                           ELSE "UPDATE"
           IN  IF scanned \/ stored # {}
               THEN n = 1 /\ ActionTypes(last.run.actions, p) = {expected}
               ELSE n = 0

\* C13: a path whose fingerprint lookup against the store failed is
\* classified ADD, the other scanned paths still get their action (but for
\* a path whose own analysis threw), and the run goes on to its end
\* without an error.
C13_LookupFailureAsAdd ==
    (pc # "idle" \/ last.valid) =>
        /\ \A p \in TheRun.lookupFailed :
              ActionTypes(TheRun.actions, p) = {"ADD"}
        /\ TheRun.lookupFailed # {} =>
              /\ \A p \in ScannedPaths(TheRun.startDisk) \ TheRun.analyseFailed :
                    ActionTypes(TheRun.actions, p) # {}
              /\ pc = "idle" => (~last.threw /\ (last.executed \/ last.run.validateOnly))

\* a finished run in which the lookup failed for a path whose catalog
\* record holds the fingerprint of the file on disk, beside another path
C13_Witness ==
    /\ Finished
    /\ last.executed
    /\ \E p \in last.run.lookupFailed :
          /\ \E q \in last.run.startStore[CatalogCollection(last.run.client)] :
                q.source = p /\ q.hash = Sha256(last.run.startDisk[p])
          /\ \E p2 \in ScannedPaths(last.run.startDisk) \ {p} :
                ActionTypes(last.run.actions, p2) = {"ADD"}

\* a tool call was answered with a list merged over all clients
FanOutReply ==
    /\ result.reply.kind = "list"
    /\ \/ result.reply.tool = "all_chunks_search"
       \/ Given(result.reply.args.client) = None

\* C14: Fan-out merge ordering - the list a search over all clients
\* returns (all_chunks_search, or catalog_search / chunks_search without
\* client) is in descending order of score and no longer than the limit,
\* for every query, limit, store content and set of failed clients.
C14_FanOutMergeOrdering ==
    FanOutReply =>
        LET list == result.reply.list IN
        /\ Len(list) <= result.reply.limit
        /\ \A i \in 1..(Len(list) - 1) : list[i].score >= list[i + 1].score

\* a merged list in which a hit of the second client comes before a hit of
\* the first client that scores lower
C14_Witness ==
    /\ FanOutReply
    /\ LET list == result.reply.list IN
       \E i \in 1..Len(list) : \E j \in 1..Len(list) :
          /\ i < j
          /\ list[i].collection[1] = clients[2]
          /\ list[j].collection[1] = clients[1]
          /\ list[i].score > list[j].score

\* a request for a search over all clients that passed validation
FanOutRequest ==
    /\ result.reply.kind # None
    /\ Validate(result.reply.tool, result.reply.args) = NoField
    /\ \/ result.reply.tool = "all_chunks_search"
       \/ Given(result.reply.args.client) = None

ReplyType == IF result.reply.tool = "catalog_search" THEN "catalog" ELSE "chunk"

\* C15: in fan-out mode the failed search of a client is caught and left
\* out of the merge - the call returns a list, no hit comes from a client
\* whose search failed, and the hits of every client whose search succeeded
\* are in the list unless the limit cut them off.
C15_FanOutSurvivesFailure ==
    FanOutRequest =>
        LET r == result.reply IN
        /\ r.kind = "list"
        /\ \A i \in 1..Len(r.list) : r.list[i].collection[1] \notin r.down
        /\ r.embOk =>
              \A t \in Tenants \ r.down :
                 \E l \in QdrantSearch(ReplyType, store, r.args.query.str, t,
                                       Given(r.args.source), PerClient(r.limit)) :
                    \A k \in 1..Len(l) :
                       \/ \E i \in 1..Len(r.list) : r.list[i] = l[k]
                       \/ /\ Len(r.list) = r.limit
                          /\ l[k].score <= r.list[Len(r.list)].score

\* a fan-out in which the search of one client failed although that
\* client holds records, and the list holds the hits of the other client
C15_Witness ==
    /\ FanOutRequest
    /\ result.reply.kind = "list"
    /\ result.reply.list # <<>>
    /\ \E t \in result.reply.down :
          /\ ChunksOf(t) # {}
          /\ CatalogOf(t) # {}
          /\ \E u \in Tenants \ result.reply.down :
                result.reply.list[1].collection[1] = u

\* C16: every query is answered with a ranked (possibly empty) list or
\* with a validation error for a request that is invalid; a backend
\* failure produces no other outcome.
C16_ListOrValidationError ==
    result.reply.kind # None =>
        \/ result.reply.kind = "list"
        \/ /\ result.reply.kind = "error"
           /\ Validate(result.reply.tool, result.reply.args) # NoField
           /\ result.reply.field = Validate(result.reply.tool, result.reply.args)

\* C17: a request with a non-string query, a client that is not
\* configured or a limit outside 1..100 is rejected with an error that
\* names the offending field, before any embedding or store call is made.
C17_RejectedBeforeAnyCall ==
    (result.reply.kind # None
       /\ Validate(result.reply.tool, result.reply.args) # NoField) =>
        /\ result.reply.kind = "error"
        /\ result.reply.field = Validate(result.reply.tool, result.reply.args)
        /\ ~result.reply.contacted

\* C18: embeddings are aligned with their inputs by index - after
\* generateAllEmbeddings the list of every document is as long as its list
\* of chunks, its i-th entry is the embedding of the i-th chunk, and a
\* failed batch put placeholders at exactly its own positions.
C18_EmbeddingsAligned ==
    pc = "seedCatalog" =>
        \A d \in 1..Len(run.documentsToProcess) :
           LET doc == run.documentsToProcess[d] IN
           Len(doc.chunks) > 0 =>
              /\ doc.source \in DOMAIN run.chunkEmbeddings
              /\ Len(run.chunkEmbeddings[doc.source]) = Len(doc.chunks)
              /\ \A k \in 1..Len(doc.chunks) :
                    run.chunkEmbeddings[doc.source][k] =
                       IF ChunkItem(doc.source, k - 1) \in run.embedFailed
                       THEN EmptyEmbedding
                       ELSE Embed(doc.chunks[k].content)

\* the second of three batches of a document failed, the other two did not
C18_Witness ==
    /\ pc = "seedCatalog"
    /\ \E d \in 1..Len(run.documentsToProcess) :
          LET doc == run.documentsToProcess[d] IN
          /\ Len(doc.chunks) > 2 * BATCH_SIZE
          /\ ChunkItem(doc.source, 0) \notin run.embedFailed
          /\ ChunkItem(doc.source, BATCH_SIZE) \in run.embedFailed
          /\ ChunkItem(doc.source, 2 * BATCH_SIZE) \notin run.embedFailed
          /\ run.chunkEmbeddings[doc.source][2 * BATCH_SIZE + 1] # EmptyEmbedding

\* C20: point identity is stable - whatever was upserted, a client holds
\* at most one catalog record per path and at most one chunk record per
\* path and chunk index, and the id of a record is the one derived from
\* its path (and index).
C20_OneRecordPerEntity ==
    \A t \in Tenants :
       /\ \A p, q \in store[CatalogCollection(t)] :
             /\ p.id = HashString(<<p.source>>)
             /\ p.source = q.source => p = q
       /\ \A p, q \in store[ChunksCollection(t)] :
             /\ p.id = HashString(<<p.source, "-", p.chunk_index>>)
             /\ (p.source = q.source /\ p.chunk_index = q.chunk_index) => p = q

\* a chunk and a catalog entry written by this run took the place of
\* records that earlier runs had left in the collections
C20_Witness ==
    /\ pc = "idle" /\ last.valid /\ last.executed
    /\ \E q \in store[ChunksCollection(last.run.client)] :
       \E q0 \in last.run.startStore[ChunksCollection(last.run.client)] :
          /\ q.source = q0.source /\ q.chunk_index = q0.chunk_index
          /\ q.created_at = runs /\ q0.created_at < runs
    /\ \E q \in store[CatalogCollection(last.run.client)] :
       \E q0 \in last.run.startStore[CatalogCollection(last.run.client)] :
          /\ q.source = q0.source
          /\ q.created_at = runs /\ q0.created_at < runs

\* C19: at every moment of a sync run the number of embedding calls in
\* flight is at most the configured concurrency; the same holds for the
\* largest number the run has seen, the calls at write time included.
C19_InFlightWithinLimit ==
    /\ Cardinality(run.limiter.active) <= run.concurrency
    /\ run.peak <= run.concurrency
    /\ last.valid => last.run.peak <= last.run.concurrency

\* as many overview calls as the limit allows are in flight and another
\* one waits in the queue of the limiter
C19_Witness ==
    /\ pc = "embedOverviews"
    /\ Cardinality(run.limiter.active) = run.concurrency
    /\ Len(run.limiter.queue) > 0

\* the paths whose document the last run processed (ADD or UPDATE)
Processed(r) ==
    {p \in Paths : ActionTypes(r.actions, p) \cap {"ADD", "UPDATE"} # {}}

\* the last run left a catalog entry of its own for the path
EntryWritten(p) ==
    \E q \in store[CatalogCollection(last.run.client)] :
       q.source = p /\ q.created_at = runs

\* no call for the catalog entry of the path failed in the run
EntrySucceeded(r, p) ==
    CatalogItem(p) \notin r.embedFailed \cup r.writeFailed

ValidConfiguration(b) ==
    /\ b.url # NoUrl
    /\ UrlAccepted(b.url)
    /\ LET cl == ParseClients(b.raw) IN
       /\ Len(cl) > 0
       /\ \A i \in 1..Len(cl) : cl[i] # ""
       /\ \A i, j \in 1..Len(cl) : cl[i] = cl[j] => i = j

\* C22: with an invalid configuration (an empty or duplicate client name,
\* a malformed or missing QDRANT_URL) the process ends at startup - it
\* never gets to process a directory or to serve a query.
C22_InvalidConfigurationIsFatal ==
    boot.stage = "ready" => ValidConfiguration(boot)

\* C24: a seed run for a client name leaves the collections of that client
\* in the store, whether they existed or not, unless a call to the store
\* failed; no collection that existed is created again.
C24_SeedCreatesCollections ==
    /\ boot.created \cap boot.before = {}
    /\ boot.before \subseteq boot.existing
    /\ ( /\ boot.entry = "seed"
         /\ boot.stage \in {"ready", "exited"}
         /\ ValidConfiguration(boot)
         /\ boot.arg # ""
         /\ ~boot.faulted )
       => {CatalogCollection(boot.arg), ChunksCollection(boot.arg)}
             \subseteq boot.existing

\* a chunk search scoped to a client was answered with a list
ScopedChunkReply ==
    /\ result.reply.kind = "list"
    /\ result.reply.tool = "chunks_search"
    /\ Given(result.reply.args.client) # None

\* the answer came from one embedding call and one search of the client's
\* chunk collection, holds at most limit hits and is in descending order
OneRankedSearch(reply) ==
    /\ reply.embeds = 1
    /\ reply.searched = <<ChunksCollection(Given(reply.args.client))>>
    /\ Len(reply.list) <= reply.limit
    /\ \A i \in 1..Len(reply.list) :
          reply.list[i].collection = ChunksCollection(Given(reply.args.client))
    /\ \A i \in 1..(Len(reply.list) - 1) :
          reply.list[i].score >= reply.list[i + 1].score

\* C23: a chunk search scoped to a client embeds the query once, searches
\* that client's chunk collection once, returns at most limit hits in
\* descending order of score, and whenever a source argument is supplied
\* every hit has exactly that source.
C23_ScopedChunkSearch ==
    ScopedChunkReply =>
        /\ OneRankedSearch(result.reply)
        /\ result.reply.args.source # Undefined =>
              \A i \in 1..Len(result.reply.list) :
                 result.reply.list[i].source = result.reply.args.source.str

\* the same for source arguments that are not the empty string: this much
\* holds of searchChunks
ScopedChunkSearchNonEmptySource ==
    ScopedChunkReply =>
        /\ OneRankedSearch(result.reply)
        /\ Given(result.reply.args.source) # None =>
              \A i \in 1..Len(result.reply.list) :
                 result.reply.list[i].source = Given(result.reply.args.source)

\* a search with a source argument was answered with a hit while the
\* collection held a chunk of another source as well
ScopedChunkSearchWithSource ==
    /\ ScopedChunkReply
    /\ Given(result.reply.args.source) # None
    /\ Len(result.reply.list) > 0
    /\ \E q \in store[ChunksCollection(Given(result.reply.args.client))] :
          q.source # Given(result.reply.args.source)

\* C25: a DELETE action is produced for a path only if the client's store
\* holds a prior record of it and the path is absent from the scan; a path
\* whose file is in the scan is never classified DELETE, also when its
\* analysis raised an error.
C25_DeleteOnlyWhenAbsent ==
    (pc # "idle" \/ last.valid) =>
        \A p \in Paths :
           "DELETE" \in ActionTypes(TheRun.actions, p) =>
              /\ p \notin ScannedPaths(TheRun.startDisk)
              /\ \E q \in TheRun.startStore[CatalogCollection(TheRun.client)] :
                    q.source = p

\* the same without the paths whose analysis threw: this much holds
DeleteOnlyWhenAbsentOrThrown ==
    (pc # "idle" \/ last.valid) =>
        \A p \in Paths \ TheRun.analyseFailed :
           "DELETE" \in ActionTypes(TheRun.actions, p) =>
              /\ p \notin ScannedPaths(TheRun.startDisk)
              /\ \E q \in TheRun.startStore[CatalogCollection(TheRun.client)] :
                    q.source = p

\* C26: within a sync run every embedding call for the ADD/UPDATE documents
\* completes before the first upsert of the run, and the vector of every
\* overview and chunk the run wrote is the one generateAllEmbeddings
\* produced for it.
C26_EmbedBeforeWrite ==
    (pc # "idle" \/ (last.valid /\ last.executed)) =>
        /\ ~TheRun.lateEmbed
        /\ \A q \in CatalogOf(TheRun.client) :
              q.created_at = runs =>
                 /\ q.source \in DOMAIN TheRun.catalogEmbeddings
                 /\ q.vector = TheRun.catalogEmbeddings[q.source]
        /\ \A q \in ChunksOf(TheRun.client) :
              q.created_at = runs =>
                 /\ q.source \in DOMAIN TheRun.chunkEmbeddings
                 /\ q.vector = TheRun.chunkEmbeddings[q.source][q.chunk_index + 1]


\* chunk indexes of `pages` that the tenant's chunk collection lacks for p
MissingChunks(st, client, p, pages) ==
    {i \in 0..(Len(SplitDocuments(pages)) - 1) :
        ~\E q \in st[ChunksCollection(client)] :
            q.source = p /\ q.chunk_index = i}

\* run r started with p partially indexed: the catalog entry holds the
\* fingerprint of the file as it is, and a chunk of the file is missing
PartiallyIndexed(r, p) ==
    /\ r.startDisk[p] # Absent
    /\ \E q \in r.startStore[CatalogCollection(r.client)] :
          q.source = p /\ q.hash = Sha256(r.startDisk[p])
    /\ MissingChunks(r.startStore, r.client, p, r.startDisk[p]) # {}

PurgeStep ==
    /\ pc = "exec"
    /\ run.actions[run.ai].type \in {"DELETE", "UPDATE"}

\* the records deleteBySource(source, client) is not about
OtherRecords(st, source, client) ==
    [c \in Collections |->
        IF c \in {CatalogCollection(client), ChunksCollection(client)}
        THEN {q \in st[c] : q.source # source}
        ELSE st[c]]

\* C28: deleteByPath(path, tenant) purges both stores and nothing else -
\* after it returns neither the tenant's catalog store nor its chunk store
\* holds a record with that path, every record with another path or of
\* another tenant is unchanged, and a failed delete on the catalog store
\* does not prevent the delete on the chunk store.
C28_DeletePurgesBoth ==
    [][PurgeStep =>
         LET source == run.actions[run.ai].source
             client == run.client
         IN  /\ \A q \in store'[CatalogCollection(client)]
                           \cup store'[ChunksCollection(client)] :
                    q.source # source
             /\ OtherRecords(store', source, client)
                   = OtherRecords(store, source, client)
             /\ (faults' = faults + 1
                   /\ \E q \in store'[CatalogCollection(client)] :
                         q.source = source)
                => \A q \in store'[ChunksCollection(client)] :
                      q.source # source]_vars

\* the same for the calls in which no delete fails, with the frame and the
\* independence of the two deletes for all calls: this much holds
DeletePurgesBothUnlessFailed ==
    [][PurgeStep =>
         LET source == run.actions[run.ai].source
             client == run.client
         IN  /\ faults' = faults =>
                   \A q \in store'[CatalogCollection(client)]
                              \cup store'[ChunksCollection(client)] :
                       q.source # source
             /\ OtherRecords(store', source, client)
                   = OtherRecords(store, source, client)
             /\ (faults' = faults + 1
                   /\ \E q \in store'[CatalogCollection(client)] :
                         q.source = source)
                => \A q \in store'[ChunksCollection(client)] :
                      q.source # source]_vars


\* no call for chunk i of the path failed in the run: neither the batch
\* that embeds it nor its write-time embedding nor its upsert
ChunkSucceeded(r, p, i) ==
    /\ ChunkItem(p, i) \notin r.embedFailed \cup r.writeFailed
    /\ <<p, BatchStart(i)>> \notin r.failBatch

\* the last run left chunk i of the path, with the fingerprint of its pages
ChunkWritten(p, i, pages) ==
    \E q \in store[ChunksCollection(last.run.client)] :
       /\ q.source = p /\ q.chunk_index = i
       /\ q.hash = Sha256(pages) /\ q.created_at = runs

\* the ADD/UPDATE actions of the run for the path
ProcessActions(r, p) ==
    {i \in 1..Len(r.actions) :
        r.actions[i].source = p /\ r.actions[i].type \in {"ADD", "UPDATE"}}

\* C29: for an ADD or UPDATE path whose text is not longer than the
\* threshold (100 characters) no summary is requested and no catalog entry
\* is written, while its chunks are embedded and written (every chunk none
\* of whose calls failed); for a SKIP path the run embeds nothing and
\* neither upserts nor deletes a record of the path.
C29_ShortAndSkippedPaths ==
    (Finished /\ last.executed) =>
        \A p \in Paths :
           /\ (/\ p \in Processed(last.run)
               /\ ContentLength(last.run.startDisk[p]) <= SummaryThreshold)
              => /\ \A i \in ProcessActions(last.run, p) :
                       last.run.actions[i].file.overview = NoOverview
                 /\ ~EntryWritten(p)
                 /\ \A i \in 0..(Len(SplitDocuments(last.run.startDisk[p])) - 1) :
                       ChunkSucceeded(last.run, p, i)
                          => ChunkWritten(p, i, last.run.startDisk[p])
           /\ ActionTypes(last.run.actions, p) = {"SKIP"}
              => /\ p \notin DocSources(last.run.documentsToProcess)
                 /\ \A c \in Collections :
                       {q \in store[c] : q.source = p}
                          = {q \in last.run.startStore[c] : q.source = p}

\* a run that skipped one file and processed another of at most 100
\* characters: the short one has all its chunks and no catalog entry
C29_Witness ==
    /\ Finished /\ last.executed
    /\ \E p \in Paths : ActionTypes(last.run.actions, p) = {"SKIP"}
    /\ \E p \in Processed(last.run) :
          /\ ContentLength(last.run.startDisk[p]) <= SummaryThreshold
          /\ \A q \in store[CatalogCollection(last.run.client)] : q.source # p
          /\ \A i \in 0..(Len(SplitDocuments(last.run.startDisk[p])) - 1) :
                ChunkWritten(p, i, last.run.startDisk[p])


\* the collections of the other tenants
ForeignCollections(client) ==
    Collections \ {CatalogCollection(client), ChunksCollection(client)}

\* C30: a sync run for tenant T upserts and deletes only in T's catalog and
\* chunk collections - during and after the run the collections of every
\* other tenant hold the records they held when the run started.
C30_SyncTouchesOwnTenantOnly ==
    (pc # "idle" \/ last.valid) =>
        \A c \in ForeignCollections(TheRun.client) :
           store[c] = TheRun.startStore[c]

\* a run has deleted and written records of its tenant while another
\* tenant holds records of the same path
C30_Witness ==
    /\ Finished /\ last.executed
    /\ \E p \in Paths :
          /\ "UPDATE" \in ActionTypes(last.run.actions, p)
          /\ \E q \in last.run.startStore[ChunksCollection(last.run.client)] :
                q.source = p /\ q \notin store[ChunksCollection(last.run.client)]
          /\ \E q \in store[ChunksCollection(last.run.client)] :
                q.source = p /\ q.created_at = runs
          /\ \E c \in ForeignCollections(last.run.client) :
                \E q \in store[c] : q.source = p


\* 2000 * 2^k
RECURSIVE DoubledDelay(_)
DoubledDelay(k) == IF k = 0 THEN 2000 ELSE 2 * DoubledDelay(k - 1)

\* the running or last call of connect() stays within three attempts:
\* only the last attempt can have succeeded, the call returns with the
\* first success, throws with the third failure, and has slept a doubling
\* delay after every failure but the third
ConnectBounded ==
    /\ Len(conn.attempts) <= 3
    /\ \A i \in 1..(Len(conn.attempts) - 1) : ~conn.attempts[i]
    /\ \A i \in 1..Len(conn.waits) : conn.waits[i] = DoubledDelay(i - 1)
    /\ conn.pc = "call" =>
          /\ Len(conn.attempts) < 3
          /\ \A i \in 1..Len(conn.attempts) : ~conn.attempts[i]
          /\ Len(conn.waits) = Len(conn.attempts)
    /\ conn.pc = "sleep" => Len(conn.waits) = Len(conn.attempts) - 1
    /\ conn.pc = "returned" =>
          /\ conn.initialized
          /\ conn.attempts # <<>> => conn.attempts[Len(conn.attempts)]
          /\ Len(conn.waits) = Len(conn.attempts) - (IF conn.attempts = <<>> THEN 0 ELSE 1)
    /\ conn.pc = "thrown" =>
          /\ ~conn.initialized
          /\ Len(conn.attempts) = 3 /\ ~conn.attempts[3]
          /\ conn.waits = <<2000, 4000>>

\* the items of the run whose embedding or upsert failed have no record
\* written by the run
FailedItemsNotWritten ==
    pc # "idle" =>
       \A item \in run.embedFailed \cup run.writeFailed :
          \A q \in store[CatalogCollection(run.client)]
                     \cup store[ChunksCollection(run.client)] :
             ~ /\ q.source = item[1]
               /\ q.created_at = runs
               /\ IF item[2] = -1 THEN q.type = "catalog"
                  ELSE q.type = "chunk" /\ q.chunk_index = item[2]

\* a step of a loop over items moves on to the next item, whatever the
\* outcome of its calls
ItemStepAdvances ==
    pc \in {"exec", "seedCatalog", "seedChunks"} =>
       <<pc', run'.ai, run'.di, run'.ci>> # <<pc, run.ai, run.di, run.ci>>

\* C31: connect() makes at most 3 connection attempts with a doubling
\* delay between them, returns after the first successful attempt, raises
\* after the third failure and always terminates; the per-item store and
\* embedding calls of a run are made once, a failed one is not repeated.
C31_BoundedConnectRetry ==
    /\ [](ConnectBounded /\ FailedItemsNotWritten)
    /\ [][ItemStepAdvances]_vars
    /\ (conn.pc \in {"call", "sleep"}) ~> (conn.pc \in {"returned", "thrown"})

\* a connect() that failed three times and threw, followed by one that
\* got through at its third attempt, and a run with a failed chunk upsert
C31_Witness ==
    /\ conn.n = 2
    /\ conn.pc = "returned"
    /\ conn.attempts = <<FALSE, FALSE, TRUE>>
    /\ conn.waits = <<2000, 4000>>
    /\ pc = "finish"
    /\ run.writeFailed # {}


\* the actions of a run as a set: what the run has to do, whatever the
\* order of the list
ActionSet(r) == {r.actions[i] : i \in DOMAIN r.actions}

\* the sources whose records of one store ("catalog" or "chunks") the run
\* has deleted
PurgedSources(r, part) ==
    {a.source : a \in {x \in ActionSet(r) : x.type \in {"DELETE", "UPDATE"}}}
       \ {f[1] : f \in {g \in r.purgeFailed : g[2] = part}}

\* the documents of the ADD and UPDATE actions
ProcessedDocs(r) ==
    {a.file : a \in {x \in ActionSet(r) :
                        x.type \in {"ADD", "UPDATE"} /\ x.file.source # None}}

NoRecords == [c \in Collections |-> {}]

\* the catalog records the run writes: one for every document with an
\* overview none of whose calls failed
NewCatalogRecords(r, clock) ==
    UNION {StoreCatalogEntry(NoRecords,
              [source |-> doc.source, hash |-> doc.hash,
               content |-> doc.content, overview |-> doc.overview,
               created_at |-> clock],
              r.client, TRUE, TRUE)[CatalogCollection(r.client)] :
           doc \in {d \in ProcessedDocs(r) :
                      /\ d.overview # NoOverview
                      /\ CatalogItem(d.source)
                            \notin r.embedFailed \cup r.writeFailed}}

\* the chunk records the run writes: one for every chunk none of whose
\* calls failed
NewChunkRecords(r, clock) ==
    UNION {UNION {StoreDocumentChunk(NoRecords,
                     [source |-> doc.source, hash |-> doc.hash,
                      content |-> doc.content,
                      chunk_index |-> doc.chunks[k].index,
                      chunk_total |-> doc.chunks[k].total,
                      chunk_content |-> doc.chunks[k].content,
                      created_at |-> clock],
                     r.client, TRUE, TRUE)[ChunksCollection(r.client)] :
                  k \in {j \in 1..Len(doc.chunks) :
                           ChunkItem(doc.source, doc.chunks[j].index)
                              \notin r.embedFailed \cup r.writeFailed}} :
           doc \in ProcessedDocs(r)}

\* what is left of `points` after the deletes and the upserts of the run
Replaced(points, purged, new) ==
    {q \in points : q.source \notin purged /\ \A n \in new : n.id # q.id}
       \cup new

\* the store a run leaves, from the set of its actions and the outcome of
\* the calls for each item: the order of the action list plays no part
StoreOfActionSet(r, clock) ==
    [c \in Collections |->
        IF c = CatalogCollection(r.client)
        THEN Replaced(r.startStore[c], PurgedSources(r, "catalog"),
                      NewCatalogRecords(r, clock))
        ELSE IF c = ChunksCollection(r.client)
        THEN Replaced(r.startStore[c], PurgedSources(r, "chunks"),
                      NewChunkRecords(r, clock))
        ELSE r.startStore[c]]

C33_NoStaleVersion ==
    (Synced /\ last.run.startDisk = disk) =>
        \A p \in ScannedPaths(disk) :
           \A q \in CatalogOf(last.run.client) \cup ChunksOf(last.run.client) :
              q.source = p => q.hash = Sha256(disk[p])

\* the same for the paths whose previous version was longer than the
\* summarisation threshold, hence left a catalog entry: this much holds
NoStaleVersionOfSummarised ==
    (Synced /\ last.run.startDisk = disk) =>
        \A p \in ScannedPaths(disk) :
           (\A q \in last.run.startStore[ChunksCollection(last.run.client)] :
               q.source = p => ContentLength(q.content) > SummaryThreshold) =>
              \A q \in CatalogOf(last.run.client) \cup ChunksOf(last.run.client) :
                 q.source = p => q.hash = Sha256(disk[p])


\* records p and q stand for the same logical entity: the catalog entry of
\* one path, or the chunk of one path and chunk index
SameEntity(p, q) ==
    /\ p.type = q.type
    /\ p.source = q.source
    /\ p.type = "chunk" => p.chunk_index = q.chunk_index

\* a record that the step removes from a collection is replaced by a
\* record of the same entity
ReplacesSameEntity ==
    \A c \in Collections : \A q \in store[c] :
       q \notin store'[c] =>
          \E n \in store'[c] \ store[c] : SameEntity(n, q)

\* C34: upserting a record never overwrites a record of a different
\* logical entity - a record that a step removes from a collection is
\* replaced by a record of the same path (and chunk index): within one
\* tenant two distinct paths never have the same catalog point id, two
\* distinct (path, chunkIndex) pairs never the same chunk point id.
C34_UpsertKeepsOtherEntities ==
    [][ReplacesSameEntity]_vars

\* the same for the upserts of a sync run over the paths a.pdf and b.md,
\* whose ids differ: this much holds
SyncUpsertKeepsOtherEntities ==
    [][(pc \in {"seedCatalog", "seedChunks"}) => ReplacesSameEntity]_vars


\* C35: with no tenant and no source filter the fan-out
\* searchChunks(query, limit) of RagManager and searchAllChunks(query,
\* limit) return the same result list, for every store content, every
\* client list (a repeated name included) and every pattern of failures.
C35_FanOutEqualsMerged ==
    result.kind = "compare" =>
       result.compared.fanOut = result.compared.merged

\* the same for the client lists that name no client twice: this much
\* holds
FanOutEqualsMergedDistinct ==
    (/\ result.kind = "compare"
     /\ RegisteredClients(result.compared.clients) = result.compared.clients)
       => result.compared.fanOut = result.compared.merged

====
